---------------------------- MODULE Spec2Model ----------------------------
(***************************************************************************)
(* A model of the data-quality pipeline: field normalisation, dedup        *)
(* ranking, the validation / quarantine rule chains.                       *)
(*                                                                         *)
(* Representation.                                                         *)
(*   text cell      a TLA+ string, or NA for None / NaN / pd.NA            *)
(*   numeric cell   <<>> for NaN, <<n>> for the float n/10 (tenths)        *)
(*   timestamp cell <<>> for NaT, <<day, sec>> : days since 1970-01-01 and *)
(*                  second of the day, UTC                                 *)
(*   frame          [cols |-> set of column names, rows |-> sequence of    *)
(*                  records whose DOMAIN is cols]                          *)
(***************************************************************************)
EXTENDS Integers, Sequences, FiniteSets, TLC

(***************************************************************************)
(* Bounds of the model.                                                    *)
(***************************************************************************)
MaxRows == 2

(***************************************************************************)
(* Cells.                                                                  *)
(***************************************************************************)
NA == "<NA>"
NaN == <<>>
NaT == <<>>
Num(n) == <<n>>

(***************************************************************************)
(* Python str primitives used by the normalisers.                          *)
(***************************************************************************)
Ch(s, i) == SubSeq(s, i, i)

Whitespace == {" ", "\t", "\n"}

RECURSIVE LStrip(_)
LStrip(s) ==
  IF s # "" /\ Ch(s, 1) \in Whitespace THEN LStrip(SubSeq(s, 2, Len(s))) ELSE s

RECURSIVE RStrip(_)
RStrip(s) ==
  IF s # "" /\ Ch(s, Len(s)) \in Whitespace
  THEN RStrip(SubSeq(s, 1, Len(s) - 1)) ELSE s

Strip(s) == RStrip(LStrip(s))

\* 0 when c does not occur in s, else the first position of c in s
RECURSIVE IndexIn(_, _, _)
IndexIn(c, s, i) ==
  IF i > Len(s) THEN 0 ELSE IF Ch(s, i) = c THEN i ELSE IndexIn(c, s, i + 1)

\* str.lower() and str.upper(), one character
LowerMap ==
  ("A" :> "a") @@ ("B" :> "b") @@ ("C" :> "c") @@ ("D" :> "d") @@ ("E" :> "e") @@ ("F" :> "f") @@
  ("G" :> "g") @@ ("H" :> "h") @@ ("I" :> "i") @@ ("J" :> "j") @@ ("K" :> "k") @@ ("L" :> "l") @@
  ("M" :> "m") @@ ("N" :> "n") @@ ("O" :> "o") @@ ("P" :> "p") @@ ("Q" :> "q") @@ ("R" :> "r") @@
  ("S" :> "s") @@ ("T" :> "t") @@ ("U" :> "u") @@ ("V" :> "v") @@ ("W" :> "w") @@ ("X" :> "x") @@
  ("Y" :> "y") @@ ("Z" :> "z")

UpperMap ==
  ("a" :> "A") @@ ("b" :> "B") @@ ("c" :> "C") @@ ("d" :> "D") @@ ("e" :> "E") @@ ("f" :> "F") @@
  ("g" :> "G") @@ ("h" :> "H") @@ ("i" :> "I") @@ ("j" :> "J") @@ ("k" :> "K") @@ ("l" :> "L") @@
  ("m" :> "M") @@ ("n" :> "N") @@ ("o" :> "O") @@ ("p" :> "P") @@ ("q" :> "Q") @@ ("r" :> "R") @@
  ("s" :> "S") @@ ("t" :> "T") @@ ("u" :> "U") @@ ("v" :> "V") @@ ("w" :> "W") @@ ("x" :> "X") @@
  ("y" :> "Y") @@ ("z" :> "Z")

LowerCh(c) == IF c \in DOMAIN LowerMap THEN LowerMap[c] ELSE c

UpperCh(c) == IF c \in DOMAIN UpperMap THEN UpperMap[c] ELSE c

RECURSIVE Lower(_)
Lower(s) ==
  IF s = "" THEN "" ELSE LowerCh(Ch(s, 1)) \o Lower(SubSeq(s, 2, Len(s)))

RECURSIVE Upper(_)
Upper(s) ==
  IF s = "" THEN "" ELSE UpperCh(Ch(s, 1)) \o Upper(SubSeq(s, 2, Len(s)))

RECURSIVE RemoveSpaces(_)
RemoveSpaces(s) ==
  IF s = "" THEN ""
  ELSE (IF Ch(s, 1) = " " THEN "" ELSE Ch(s, 1))
         \o RemoveSpaces(SubSeq(s, 2, Len(s)))

DigitMap ==
  ("0" :> 0) @@ ("1" :> 1) @@ ("2" :> 2) @@ ("3" :> 3) @@ ("4" :> 4) @@
  ("5" :> 5) @@ ("6" :> 6) @@ ("7" :> 7) @@ ("8" :> 8) @@ ("9" :> 9)

IsDigitCh(c) == c \in DOMAIN DigitMap
DigitVal(c) == DigitMap[c]

\* str.isdigit(): non-empty and every character a digit
IsDigit(s) == s # "" /\ \A i \in 1..Len(s) : IsDigitCh(Ch(s, i))

\* int() of a short digit string
RECURSIVE ToInt(_)
ToInt(s) ==
  IF s = "" THEN 0
  ELSE ToInt(SubSeq(s, 1, Len(s) - 1)) * 10 + DigitVal(Ch(s, Len(s)))

\* code-point order of strings, as Python compares str (the printable ASCII
\* characters in code-point order; the double quote, the backslash and the backquote are left out)
Ascii ==
  " !#$%&'()*+,-./0123456789:;<=>?@ABCDEFGHIJKLMNOPQRSTUVWXYZ[]^_abcdefghijklmnopqrstuvwxyz{|}~"

Ord(c) == LET i == IndexIn(c, Ascii, 1) IN IF i = 0 THEN Len(Ascii) + 1 ELSE i

RECURSIVE StrLess(_, _)
StrLess(a, b) ==
  IF b = "" THEN FALSE
  ELSE IF a = "" THEN TRUE
  ELSE IF Ch(a, 1) = Ch(b, 1)
       THEN StrLess(SubSeq(a, 2, Len(a)), SubSeq(b, 2, Len(b)))
       ELSE Ord(Ch(a, 1)) < Ord(Ch(b, 1))

(***************************************************************************)
(* utils.py : canonicalisation tables.                                     *)
(***************************************************************************)
\* (the two non-ASCII keys of the table, the euro sign and its mis-decoded form,
\* both mapping to EUR, are left out: every raw cell of the model is ASCII)
CANON_CURRENCY ==
  ("usd" :> "USD") @@ ("$" :> "USD") @@ ("us$" :> "USD") @@ ("eur" :> "EUR")

CANON_PLATFORM ==
  ("ios" :> "ios") @@ ("iphone" :> "ios") @@ ("android" :> "android") @@
  ("and" :> "android") @@ ("web" :> "web") @@ ("browser" :> "web")

CANON_COUNTRY ==
  ("UNITED STATES" :> "US") @@ ("USA" :> "US") @@ ("US" :> "US") @@
  ("UNITED KINGDOM" :> "GB") @@ ("UK" :> "GB") @@ ("GB" :> "GB") @@
  ("GREAT BRITAIN" :> "GB") @@ ("INDIA" :> "IN") @@ ("IN" :> "IN") @@
  ("N/A" :> NA) @@ ("NA" :> NA) @@ ("" :> NA)

CANON_STATUS_CUSTOMER == <<"active", "inactive", "banned">>

CANON_ORDER_STATUS ==
  ("paid" :> "paid") @@ ("succeeded" :> "paid") @@ ("failed" :> "failed") @@
  ("refunded" :> "refunded") @@ ("chargeback" :> "chargeback")

\* dict.get(key, default)
Get(table, key, default) == IF key \in DOMAIN table THEN table[key] ELSE default

(***************************************************************************)
(* utils.py : regular expressions.                                         *)
(***************************************************************************)
NotAtNorSpace(s) ==
  s # "" /\ \A i \in 1..Len(s) : Ch(s, i) # "@" /\ Ch(s, i) \notin Whitespace

\* EMAIL_RE.match(s):  ^[^@\s]+@[^@\s]+\.[^@\s]+$
EMAIL_RE(s) ==
  \E a \in 1..Len(s) : \E d \in 1..Len(s) :
    /\ a < d
    /\ Ch(s, a) = "@"
    /\ Ch(s, d) = "."
    /\ NotAtNorSpace(SubSeq(s, 1, a - 1))
    /\ NotAtNorSpace(SubSeq(s, a + 1, d - 1))
    /\ NotAtNorSpace(SubSeq(s, d + 1, Len(s)))

\* CUSTOMER_ID_RE.fullmatch(s):  ^c\d{5}$
CUSTOMER_ID_RE(s) ==
  Len(s) = 6 /\ Ch(s, 1) = "c" /\ \A i \in 2..6 : IsDigitCh(Ch(s, i))

\* CUSTOMER_ID_EMBEDDED_RE.search(s): the start of the leftmost (c\d{5}), case
\* ignored, or 0 when there is none
RECURSIVE CUSTOMER_ID_EMBEDDED_RE(_, _)
CUSTOMER_ID_EMBEDDED_RE(s, i) ==
  IF i + 5 > Len(s) THEN 0
  ELSE IF Lower(Ch(s, i)) = "c" /\ \A k \in (i + 1)..(i + 5) : IsDigitCh(Ch(s, k))
       THEN i
       ELSE CUSTOMER_ID_EMBEDDED_RE(s, i + 1)

(***************************************************************************)
(* utils.py : normalisers.                                                 *)
(***************************************************************************)
is_valid_email(email) ==
  IF email = NA \/ email = "" THEN FALSE ELSE EMAIL_RE(Strip(email))

\* normalize_currency that keeps a string it does not know
normalize_currency_keep(x) ==
  IF x = NA THEN NA
  ELSE LET t == RemoveSpaces(Lower(Strip(x))) IN Get(CANON_CURRENCY, t, Upper(t))

\* normalize_currency without .lower()
normalize_currency_nolower(x) ==
  IF x = NA THEN NA
  ELSE Get(CANON_CURRENCY, RemoveSpaces(Strip(x)), NA)

normalize_currency(x) ==
  IF x = NA THEN NA
  ELSE Get(CANON_CURRENCY, RemoveSpaces(Lower(Strip(x))), NA)

normalize_platform(x) ==
  IF x = NA THEN NA
  ELSE LET s == Lower(Strip(x))
       IN  Get(CANON_PLATFORM, s, IF s \in {"ios", "android", "web"} THEN s ELSE NA)

normalize_country(value) ==
  IF value = NA THEN NA ELSE Get(CANON_COUNTRY, Upper(Strip(value)), NA)

normalize_order_status(x) ==
  IF x = NA THEN NA ELSE Get(CANON_ORDER_STATUS, Lower(Strip(x)), NA)

\* normalize_customer_id that does not look for an id inside the string
normalize_customer_id_exact(value) ==
  IF value = NA THEN NA
  ELSE LET s == Lower(Strip(value))
       IN  IF s = "" THEN NA
           ELSE IF s \in {"null", "none", "nan", "n/a", "na"} THEN NA
           ELSE IF CUSTOMER_ID_RE(s) THEN s
           ELSE NA

normalize_customer_id(value) ==
  IF value = NA THEN NA
  ELSE LET s == Lower(Strip(value))
       IN  IF s = "" THEN NA
           ELSE IF s \in {"null", "none", "nan", "n/a", "na"} THEN NA
           ELSE IF CUSTOMER_ID_RE(s) THEN s
           ELSE LET m == CUSTOMER_ID_EMBEDDED_RE(s, 1)
                    candidate == Lower(SubSeq(s, m, m + 5))
                IN  IF m # 0 /\ CUSTOMER_ID_RE(candidate) THEN candidate ELSE NA

(***************************************************************************)
(* difflib.SequenceMatcher(None, a, b).ratio() as the fraction             *)
(* <<2 * matches, len(a) + len(b)>>.  Ranges are half open, [lo, hi).      *)
(***************************************************************************)
RECURSIVE RunLen(_, _, _, _, _, _)
RunLen(a, b, i, j, ahi, bhi) ==
  IF i < ahi /\ j < bhi /\ Ch(a, i) = Ch(b, j)
  THEN 1 + RunLen(a, b, i + 1, j + 1, ahi, bhi)
  ELSE 0

SetMax(S) == CHOOSE x \in S : \A y \in S : y <= x
SetMin(S) == CHOOSE x \in S : \A y \in S : x <= y

\* find_longest_match: the longest block, the earliest in a, then the earliest in b
find_longest_match(a, b, alo, ahi, blo, bhi) ==
  IF alo >= ahi \/ blo >= bhi THEN <<alo, blo, 0>>
  ELSE LET k == SetMax({RunLen(a, b, i, j, ahi, bhi) :
                          i \in alo..(ahi - 1), j \in blo..(bhi - 1)})
           i == SetMin({x \in alo..(ahi - 1) :
                          \E y \in blo..(bhi - 1) : RunLen(a, b, x, y, ahi, bhi) = k})
           j == SetMin({y \in blo..(bhi - 1) : RunLen(a, b, i, y, ahi, bhi) = k})
       IN  IF k = 0 THEN <<alo, blo, 0>> ELSE <<i, j, k>>

RECURSIVE get_matching_blocks(_, _, _, _, _, _)
get_matching_blocks(a, b, alo, ahi, blo, bhi) ==
  LET m == find_longest_match(a, b, alo, ahi, blo, bhi)
  IN  IF m[3] = 0 THEN 0
      ELSE m[3] + get_matching_blocks(a, b, alo, m[1], blo, m[2])
                + get_matching_blocks(a, b, m[1] + m[3], ahi, m[2] + m[3], bhi)

similarity(a, b) ==
  <<2 * get_matching_blocks(a, b, 1, Len(a) + 1, 1, Len(b) + 1), Len(a) + Len(b)>>

\* fractions p = <<num, den>> with den > 0
FracGreater(p, q) == p[1] * q[2] > q[1] * p[2]

\* the loop over CANON_STATUS_CUSTOMER: <<best_label, best_score>> after labels 1..n
RECURSIVE BestStatus(_, _)
BestStatus(s, n) ==
  IF n = 0 THEN <<NA, <<0, 1>>>>
  ELSE LET prev == BestStatus(s, n - 1)
           sc == similarity(s, CANON_STATUS_CUSTOMER[n])
       IN  IF FracGreater(sc, prev[2]) THEN <<CANON_STATUS_CUSTOMER[n], sc>> ELSE prev

\* threshold = 0.80
normalize_customer_status(value) ==
  IF value = NA THEN NA
  ELSE LET s == Lower(Strip(value))
       IN  IF s = "" THEN NA
           ELSE LET best == BestStatus(s, Len(CANON_STATUS_CUSTOMER))
                IN  IF 100 * best[2][1] >= 80 * best[2][2] THEN best[1] ELSE NA

(***************************************************************************)
(* The state: the clock, one process_day run's arguments, the raw batches  *)
(* read from the partition, and every frame the run computes.              *)
(***************************************************************************)
VARIABLES
  current_year,          \* datetime.now(timezone.utc).year
  ingest_date,           \* the partition key process_day is called with
  customers_raw, events_raw, orders_raw,
  customers_cleaned, events_cleaned, orders_cleaned,
  customers_clean, customers_quarantine, cust_stats,
  events_clean, events_quarantine, ev_stats,
  orders_clean, orders_quarantine, ord_stats,
  pc,                    \* the position of the run in process_day
  validate_date,         \* the ingest_date argument the validators are given
  hourly, old, daily_row, hist, alerts,
  hourly_events_parquet, \* out_dir/metrics/hourly_events.parquet
  daily_metrics_parquet, \* out_dir/metrics/daily_metrics.parquet
  thresholds,            \* the keyword arguments of detect_partial_load
  runs,                  \* the process_day calls made so far
  previous,              \* the previous process_day call: what it read and produced
  latest,                \* by ingest_date, the last finished call for that date
  peer                   \* a second process_day invocation, run in parallel

\* what the steps up to the validators leave alone
tail_vars ==
  <<validate_date, hourly, old, daily_row, hist, alerts,
    hourly_events_parquet, daily_metrics_parquet, thresholds, runs, previous,
    latest, peer>>

\* the locals of process_day up to the validators
head_vars ==
  <<customers_raw, events_raw, orders_raw,
    customers_cleaned, events_cleaned, orders_cleaned,
    customers_clean, customers_quarantine, cust_stats,
    events_clean, events_quarantine, ev_stats,
    orders_clean, orders_quarantine, ord_stats>>

vars == <<current_year, ingest_date, head_vars, pc, tail_vars>>

(***************************************************************************)
(* utils.py : safe_float.  float(x) is modelled for cells of the form      *)
(* [+-]digits[.digits] with at most one significant fractional digit; a    *)
(* float is kept in tenths.                                                *)
(***************************************************************************)
PyFloat(x) ==
  LET t == Strip(x)
      neg == t # "" /\ Ch(t, 1) = "-"
      body == IF t # "" /\ Ch(t, 1) \in {"-", "+"} THEN SubSeq(t, 2, Len(t)) ELSE t
      dot == IndexIn(".", body, 1)
      ip == IF dot = 0 THEN body ELSE SubSeq(body, 1, dot - 1)
      fp == IF dot = 0 THEN "" ELSE SubSeq(body, dot + 1, Len(body))
      wellformed == /\ ip # "" \/ fp # ""
                    /\ ip = "" \/ IsDigit(ip)
                    /\ fp = "" \/ IsDigit(fp)
      tenths == ToInt(ip) * 10 + (IF fp = "" THEN 0 ELSE DigitVal(Ch(fp, 1)))
  IN  IF wellformed THEN Num(IF neg THEN 0 - tenths ELSE tenths) ELSE NaN

safe_float(x) ==
  IF x = NA THEN NaN
  ELSE IF Strip(x) = "" THEN NaN
  ELSE PyFloat(x)

(***************************************************************************)
(* utils.py : parse_timestamp_to_utc.  Calendar arithmetic of datetime.    *)
(***************************************************************************)
IsLeap(y) == (y % 4 = 0 /\ y % 100 # 0) \/ y % 400 = 0

DaysInMonth(y, m) ==
  IF m = 2 THEN (IF IsLeap(y) THEN 29 ELSE 28)
  ELSE IF m \in {4, 6, 9, 11} THEN 30 ELSE 31

\* days from 1970-01-01 to the civil date y-m-d
days_from_civil(y, m, d) ==
  LET yy == IF m <= 2 THEN y - 1 ELSE y
      era == yy \div 400
      yoe == yy - era * 400
      mp == IF m > 2 THEN m - 3 ELSE m + 9
      doy == (153 * mp + 2) \div 5 + d - 1
      doe == yoe * 365 + yoe \div 4 - yoe \div 100 + doy
  IN  era * 146097 + doe - 719468

\* the year of the day z days after 1970-01-01
year_of_days(z) ==
  LET zz == z + 719468
      era == zz \div 146097
      doe == zz - era * 146097
      yoe == (doe - doe \div 1460 + doe \div 36524 - doe \div 146096) \div 365
      doy == doe - (365 * yoe + yoe \div 4 - yoe \div 100)
      mp == (5 * doy + 2) \div 153
  IN  yoe + era * 400 + (IF mp < 10 THEN 0 ELSE 1)

year_valid(y) == 1900 <= y /\ y <= current_year + 1

\* CheckedTime without the year check
CheckedTime_unchecked(day, sec) == <<day, sec>>

\* a datetime <<day, sec>>, or NaT when its year is out of range
CheckedTime(day, sec) == IF year_valid(year_of_days(day)) THEN <<day, sec>> ELSE NaT

\* datetime.strptime(s, "%Y%m%d") of an 8-digit string
ParseYYYYMMDD(s) ==
  LET y == ToInt(SubSeq(s, 1, 4))
      m == ToInt(SubSeq(s, 5, 6))
      d == ToInt(SubSeq(s, 7, 8))
  IN  IF y >= 1 /\ m \in 1..12 /\ d >= 1 /\ d <= DaysInMonth(y, m)
      THEN CheckedTime(days_from_civil(y, m, d), 0)
      ELSE NaT

RECURSIVE LStripZeros(_)
LStripZeros(s) ==
  IF Len(s) > 1 /\ Ch(s, 1) = "0" THEN LStripZeros(SubSeq(s, 2, Len(s))) ELSE s

\* <<quotient, remainder>> of the digit string s by 86400, by long division
\* (the quotient saturates far beyond any valid year, within the machine integer)
RECURSIVE DivBySecondsPerDay(_, _, _, _)
DivBySecondsPerDay(s, i, q, r) ==
  IF i > Len(s) THEN <<q, r>>
  ELSE LET v == r * 10 + DigitVal(Ch(s, i))
           qq == q * 10 + v \div 86400
       IN  DivBySecondsPerDay(s, i + 1, IF qq > 100000000 THEN 100000000 ELSE qq,
                              v % 86400)

\* int(s), milliseconds when >= 10^12, then datetime.fromtimestamp(ts, tz=utc)
ParseEpoch(s) ==
  LET t == LStripZeros(s)
      secs == IF Len(t) >= 13 THEN SubSeq(t, 1, Len(t) - 3) ELSE t
      qr == DivBySecondsPerDay(secs, 1, 0, 0)
  IN  CheckedTime(qr[1], qr[2])

\* two digits at position i of s as a number below hi, else -1
TwoDigits(s, i, hi) ==
  LET t == SubSeq(s, i, i + 1)
  IN  IF Len(t) = 2 /\ IsDigit(t) /\ ToInt(t) < hi THEN ToInt(t) ELSE 0 - 1

\* dateutil.parser.parse(s) followed by the conversion to UTC, for the ISO 8601
\* forms YYYY-MM-DD[(T| )HH:MM:SS[Z|(+|-)HH:MM]]; every other string of the
\* model is one the parser rejects (an exception, hence None)
ParseGeneral(s) ==
  LET n == Len(s)
      dateok == /\ n >= 10
                /\ IsDigit(SubSeq(s, 1, 4)) /\ Ch(s, 5) = "-"
                /\ IsDigit(SubSeq(s, 6, 7)) /\ Ch(s, 8) = "-"
                /\ IsDigit(SubSeq(s, 9, 10))
      y == ToInt(SubSeq(s, 1, 4))
      m == ToInt(SubSeq(s, 6, 7))
      d == ToInt(SubSeq(s, 9, 10))
      civil == y >= 1 /\ m \in 1..12 /\ d >= 1 /\ d <= DaysInMonth(y, m)
      hastime == n >= 19
      hh == TwoDigits(s, 12, 24)
      mi == TwoDigits(s, 15, 60)
      ss == TwoDigits(s, 18, 60)
      timeok == /\ Ch(s, 11) \in {"T", " "} /\ Ch(s, 14) = ":" /\ Ch(s, 17) = ":"
                /\ hh >= 0 /\ mi >= 0 /\ ss >= 0
      oh == TwoDigits(s, 21, 24)
      om == TwoDigits(s, 24, 60)
      zoneok == \/ n = 19
                \/ n = 20 /\ Ch(s, 20) = "Z"
                \/ n = 25 /\ Ch(s, 20) \in {"+", "-"} /\ Ch(s, 23) = ":"
                          /\ oh >= 0 /\ om >= 0
      offset == IF n = 25
                THEN (IF Ch(s, 20) = "-" THEN 0 - 1 ELSE 1) * (oh * 3600 + om * 60)
                ELSE 0
      local == IF hastime THEN hh * 3600 + mi * 60 + ss ELSE 0
      utc == local - offset
      carry == IF utc < 0 THEN 0 - 1 ELSE IF utc >= 86400 THEN 1 ELSE 0
  IN  IF dateok /\ civil /\ (n = 10 \/ (hastime /\ timeok /\ zoneok))
      THEN CheckedTime(days_from_civil(y, m, d) + carry, utc - carry * 86400)
      ELSE NaT

parse_timestamp_to_utc(value) ==
  IF value = NA THEN NaT
  ELSE LET s == Strip(value)
       IN  IF s = "" THEN NaT
           ELSE IF IsDigit(s)
                THEN IF Len(s) = 8 THEN ParseYYYYMMDD(s)
                     ELSE IF Len(s) < 10 THEN NaT
                     ELSE ParseEpoch(s)
                ELSE ParseGeneral(s)


(***************************************************************************)
(* pandas: the DataFrame operations the pipeline uses.                     *)
(***************************************************************************)
DataFrame(cols, rows) == [cols |-> cols, rows |-> rows]

TimeCols == {"created_at_utc", "event_time_utc", "order_time_utc", "hour_utc"}
IntCols == {"has_event_time", "has_customer", "has_event_type", "has_platform",
            "has_session", "has_duration", "has_order_time", "has_amount",
            "has_currency", "has_status"}
BoolCols == {"email_valid", "has_created_at"}

\* Series.astype(str): a missing raw cell (NaN) becomes the text "nan"
AsStr(x) == IF x = NA THEN "nan" ELSE x

\* the order sort_values puts on the cells of column c, ascending, NA last
CellLess(c, a, b) ==
  IF c \in TimeCols
  THEN a # NaT /\ (b = NaT \/ a[1] < b[1] \/ (a[1] = b[1] /\ a[2] < b[2]))
  ELSE IF c \in IntCols THEN a < b
  ELSE IF c \in BoolCols THEN ~a /\ b
  ELSE a # NA /\ (b = NA \/ StrLess(a, b))

\* lexicographic order of two rows on the columns by[i..]
RECURSIVE RowLess(_, _, _, _)
RowLess(by, i, r1, r2) ==
  IF i > Len(by) THEN FALSE
  ELSE IF CellLess(by[i], r1[by[i]], r2[by[i]]) THEN TRUE
  ELSE IF CellLess(by[i], r2[by[i]], r1[by[i]]) THEN FALSE
  ELSE RowLess(by, i + 1, r1, r2)

\* r put before the rows it ties with: a sort that is not stable
RECURSIVE InsertRow_unstable(_, _, _)
InsertRow_unstable(sorted, r, by) ==
  IF sorted = <<>> THEN <<r>>
  ELSE IF ~RowLess(by, 1, Head(sorted), r) THEN <<r>> \o sorted
  ELSE <<Head(sorted)>> \o InsertRow_unstable(Tail(sorted), r, by)

\* r put into the sorted sequence, after every row that is not greater (stable)
RECURSIVE InsertRow(_, _, _)
InsertRow(sorted, r, by) ==
  IF sorted = <<>> THEN <<r>>
  ELSE IF RowLess(by, 1, r, Head(sorted)) THEN <<r>> \o sorted
  ELSE <<Head(sorted)>> \o InsertRow(Tail(sorted), r, by)

RECURSIVE SortRows(_, _, _)
SortRows(rows, n, by) ==
  IF n = 0 THEN <<>> ELSE InsertRow(SortRows(rows, n - 1, by), rows[n], by)

\* df.sort_values(by, ascending=[True, ...]): a stable multi-key sort, NA last
sort_values(df, by) == DataFrame(df.cols, SortRows(df.rows, Len(df.rows), by))

Project(r, subset) == [c \in subset |-> r[c]]

RECURSIVE KeepLast(_, _, _)
KeepLast(rows, i, subset) ==
  IF i > Len(rows) THEN <<>>
  ELSE (IF \E j \in (i + 1)..Len(rows) :
              Project(rows[j], subset) = Project(rows[i], subset)
        THEN <<>> ELSE <<rows[i]>>)
       \o KeepLast(rows, i + 1, subset)

\* drop_duplicates that ignores subset: only full-row duplicates go
drop_duplicates_full_row(df, subset) ==
  DataFrame(df.cols, KeepLast(df.rows, 1, df.cols))

\* drop_duplicates that drops nothing
drop_duplicates_none(df, subset) == df

\* df.drop_duplicates(subset=subset, keep="last"); missing cells compare equal
drop_duplicates(df, subset) == DataFrame(df.cols, KeepLast(df.rows, 1, subset))

\* df.drop(columns=columns)
drop(df, columns) ==
  DataFrame(df.cols \ columns,
            [i \in 1..Len(df.rows) |-> Project(df.rows[i], df.cols \ columns)])

\* df[c] = values[c], for every column c of newcols
assign(df, newcols, values) ==
  DataFrame(df.cols \cup newcols,
            [i \in 1..Len(df.rows) |-> values[i] @@ df.rows[i]])

\* df.duplicated(subset, keep=False).sum(): the rows in a group of two or more
duplicated_rows(rows, subset) ==
  Cardinality({i \in 1..Len(rows) :
     \E j \in 1..Len(rows) :
        j # i /\ Project(rows[j], subset) = Project(rows[i], subset)})

(***************************************************************************)
(* cleaning.py                                                             *)
(***************************************************************************)
\* has_real_value, one cell
has_real_value(x) ==
  IF x = NA THEN FALSE
  ELSE LET s == Strip(x) IN s # "" /\ Lower(s) \notin {"nan", "none", "null"}

AsInt(b) == IF b THEN 1 ELSE 0

\* df[c].apply(safe_float): the cells are text when the frame comes from
\* read_csv; they are floats, which float(x) returns unchanged, once the frame
\* has been through the cleaner (it then has the column utc)
apply_safe_float(df, utc, x) == IF utc \in df.cols THEN x ELSE safe_float(x)

customers_sort_by ==
  <<"customer_id", "has_created_at", "created_at_utc", "email_valid">>

\* the sort keys with has_customer and has_platform exchanged
events_sort_by_swapped ==
  <<"event_id", "has_event_time", "has_platform", "has_event_type",
    "has_customer", "has_session", "has_duration", "event_time_utc">>

events_sort_by ==
  <<"event_id", "has_event_time", "has_customer", "has_event_type",
    "has_platform", "has_session", "has_duration", "event_time_utc">>

orders_sort_by ==
  <<"order_id", "has_order_time", "has_customer", "has_amount", "has_currency",
    "has_status", "order_time_utc">>

customers_helper == {"has_created_at"}
events_helper == {"has_event_time", "has_customer", "has_event_type",
                  "has_platform", "has_session", "has_duration"}
orders_helper == {"has_order_time", "has_customer", "has_amount", "has_currency",
                  "has_status"}

\* clean_customers up to the helper column: the normalised rows and their flag
customers_ranked(df, date) ==
  LET norm(r) ==
        LET email == Strip(AsStr(r.email))
            created_at_utc == parse_timestamp_to_utc(r.created_at)
        IN  [customer_id |-> normalize_customer_id(r.customer_id),
             email |-> email,
             email_valid |-> is_valid_email(email),
             created_at_utc |-> created_at_utc,
             country |-> normalize_country(r.country),
             status |-> normalize_customer_status(r.status),
             ingest_date |-> date,
             has_created_at |-> created_at_utc # NaT]
  IN  assign(df, {"email_valid", "created_at_utc", "ingest_date",
                  "has_created_at"}, [i \in 1..Len(df.rows) |-> norm(df.rows[i])])

\* ... sorted, and the last row of every customer_id kept
customers_deduped(df, date) ==
  drop_duplicates(sort_values(customers_ranked(df, date), customers_sort_by),
                  {"customer_id"})

clean_customers(df, date) == drop(customers_deduped(df, date), customers_helper)

\* clean_events up to the helper columns: normalised, full-row duplicates dropped
events_ranked(df, date) ==
  LET norm(r) ==
        [event_id |-> Strip(AsStr(r.event_id)),
         customer_id |-> normalize_customer_id(r.customer_id),
         event_time_utc |-> parse_timestamp_to_utc(r.event_time),
         event_type |-> Lower(Strip(AsStr(r.event_type))),
         platform |-> normalize_platform(r.platform),
         session_id |-> Strip(AsStr(r.session_id)),
         duration_ms |-> apply_safe_float(df, "event_time_utc", r.duration_ms),
         ingest_date |-> date]
      df1 == assign(df, {"event_time_utc", "ingest_date"},
                    [i \in 1..Len(df.rows) |-> norm(df.rows[i])])
      df2 == drop_duplicates(df1, df1.cols)
      flags(r) ==
        [has_event_time |-> AsInt(r.event_time_utc # NaT),
         has_customer |-> AsInt(has_real_value(r.customer_id)),
         has_event_type |-> AsInt(has_real_value(r.event_type)),
         has_platform |-> AsInt(r.platform # NA),
         has_session |-> AsInt(has_real_value(r.session_id)),
         has_duration |-> AsInt(r.duration_ms # NaN)]
  IN  assign(df2, events_helper, [i \in 1..Len(df2.rows) |-> flags(df2.rows[i])])

\* ... sorted, and the last row of every event_id kept
events_deduped(df, date) ==
  drop_duplicates(sort_values(events_ranked(df, date), events_sort_by),
                  {"event_id"})

clean_events(df, date) == drop(events_deduped(df, date), events_helper)

\* clean_orders up to the helper columns
orders_ranked(df, date) ==
  LET norm(r) ==
        [order_id |-> Strip(AsStr(r.order_id)),
         customer_id |-> normalize_customer_id(r.customer_id),
         order_time_utc |-> parse_timestamp_to_utc(r.order_time),
         amount |-> apply_safe_float(df, "order_time_utc", r.amount),
         currency |-> normalize_currency(r.currency),
         status |-> normalize_order_status(r.status),
         ingest_date |-> date]
      df1 == assign(df, {"order_time_utc", "ingest_date"},
                    [i \in 1..Len(df.rows) |-> norm(df.rows[i])])
      df2 == drop_duplicates(df1, df1.cols)
      flags(r) ==
        [has_order_time |-> AsInt(r.order_time_utc # NaT),
         has_customer |-> AsInt(has_real_value(r.customer_id)),
         has_amount |-> AsInt(r.amount # NaN),
         has_currency |-> AsInt(has_real_value(r.currency)),
         has_status |-> AsInt(has_real_value(r.status))]
  IN  assign(df2, orders_helper, [i \in 1..Len(df2.rows) |-> flags(df2.rows[i])])

\* ... sorted, and the last row of every order_id kept
orders_deduped(df, date) ==
  drop_duplicates(sort_values(orders_ranked(df, date), orders_sort_by),
                  {"order_id"})

clean_orders(df, date) == drop(orders_deduped(df, date), orders_helper)

(***************************************************************************)
(* validation.py                                                           *)
(***************************************************************************)
is_missing_text(x) ==
  IF x = NA THEN TRUE
  ELSE LET s == Strip(x) IN s = "" \/ Lower(s) \in {"nan", "none", "null"}

\* reason.loc[mask] += "|code", for one row
Tag(mask, code) == IF mask THEN "|" \o code ELSE ""

RECURSIVE LStripBar(_)
LStripBar(s) ==
  IF s # "" /\ Ch(s, 1) = "|" THEN LStripBar(SubSeq(s, 2, Len(s))) ELSE s

RECURSIVE RStripBar(_)
RStripBar(s) ==
  IF s # "" /\ Ch(s, Len(s)) = "|" THEN RStripBar(SubSeq(s, 1, Len(s) - 1)) ELSE s

\* Finalize without .replace({"": None})
Finalize_keep_empty(reason) == RStripBar(LStripBar(reason))

\* reason.str.strip("|").replace({"": None})
Finalize(reason) ==
  LET s == RStripBar(LStripBar(reason)) IN IF s = "" THEN NA ELSE s

\* customers: reject_reason.str.lstrip("|").replace({"": pd.NA})
Finalize_lstrip(reason) ==
  LET s == LStripBar(reason) IN IF s = "" THEN NA ELSE s

\* df["reject_reason"] = reason
WithReason(df, reason) ==
  DataFrame(df.cols \cup {"reject_reason"},
            [i \in 1..Len(df.rows) |->
               [reject_reason |-> reason[i]] @@ df.rows[i]])

Rejected(r) == r.reject_reason # NA
Accepted(r) == r.reject_reason = NA

Quarantine(df) == DataFrame(df.cols, SelectSeq(df.rows, Rejected))

\* Clean without the isna() mask
Clean_unmasked(df) == drop(df, {"reject_reason"})

Clean(df) == drop(DataFrame(df.cols, SelectSeq(df.rows, Accepted)), {"reject_reason"})

\* quarantine["reject_reason"].value_counts(dropna=True).to_dict()
value_counts(rows) ==
  [x \in {rows[i].reject_reason : i \in 1..Len(rows)} |->
     Cardinality({i \in 1..Len(rows) : rows[i].reject_reason = x})]

\* CUSTOMER_ID_RE of validation.py (re.IGNORECASE), Series.str.match
VAL_CUSTOMER_ID_RE(s) ==
  Len(s) = 6 /\ Lower(Ch(s, 1)) = "c" /\ \A i \in 2..6 : IsDigitCh(Ch(s, i))

year_out_of_range(dt) ==
  dt # NaT /\ (year_of_days(dt[1]) < 1900 \/ year_of_days(dt[1]) > current_year + 1)

\* a rule applied to one row: its mask and its code
Rule(mask, code) == [mask |-> mask, code |-> code]

\* Accumulate that stops at the first rule that matches
RECURSIVE Accumulate_first(_, _)
Accumulate_first(rules, n) ==
  IF n = 0 THEN ""
  ELSE LET before == Accumulate_first(rules, n - 1)
       IN  IF before # "" THEN before ELSE Tag(rules[n].mask, rules[n].code)

\* reason = ""; then reason.loc[mask] += "|" + code, rule after rule
RECURSIVE Accumulate(_, _)
Accumulate(rules, n) ==
  IF n = 0 THEN ""
  ELSE Accumulate(rules, n - 1) \o Tag(rules[n].mask, rules[n].code)

\* the customers rules, in the order the validator applies them
customers_rules(r, cols, expected) ==
  LET missing_customer_id == is_missing_text(r.customer_id)
      invalid_customer_id ==
        ~missing_customer_id /\ ~VAL_CUSTOMER_ID_RE(Strip(r.customer_id))
      missing_email == is_missing_text(r.email)
      missing_ingest_date == "ingest_date" \in cols /\ is_missing_text(r.ingest_date)
  IN  << Rule(missing_customer_id, "missing_customer_id"),
         Rule(invalid_customer_id, "invalid_customer_id"),
         Rule(r.created_at_utc = NaT, "missing_created_at"),
         Rule(year_out_of_range(r.created_at_utc), "created_at_out_of_range"),
         Rule(missing_email, "missing_email"),
         Rule(~missing_email /\ ~r.email_valid, "invalid_email"),
         Rule(r.status = NA \/ r.status \notin {"active", "inactive", "banned"},
              "invalid_status"),
         Rule(r.country = NA, "invalid_country"),
         Rule(missing_ingest_date, "missing_ingest_date"),
         Rule("ingest_date" \in cols /\ expected # NA /\ ~missing_ingest_date
                /\ Strip(r.ingest_date) # expected, "ingest_date_mismatch") >>

customers_reason(r, cols, expected) ==
  LET rules == customers_rules(r, cols, expected) IN Accumulate(rules, Len(rules))

split_clean_quarantine_customers(df, expected) ==
  LET reason(r) == Finalize_lstrip(customers_reason(r, df.cols, expected))
      out == WithReason(df, [i \in 1..Len(df.rows) |-> reason(df.rows[i])])
      quarantine == Quarantine(out)
      clean == Clean(out)
      non_missing(r) == ~is_missing_text(r.customer_id)
  IN  [clean |-> clean,
       quarantine |-> quarantine,
       stats |->
         [total |-> Len(out.rows),
          clean |-> Len(clean.rows),
          quarantine |-> Len(quarantine.rows),
          by_reason |-> value_counts(quarantine.rows),
          duplicates |->
            [full_row_dupes_rows_involved |-> duplicated_rows(out.rows, out.cols),
             customer_id_dupes_rows_involved |->
               duplicated_rows(SelectSeq(out.rows, non_missing), {"customer_id"})]]]

\* the join over required_cols instead of missing_required
RECURSIVE JoinMissing_required(_, _, _)
JoinMissing_required(required, i, cols) ==
  IF i > Len(required) THEN ""
  ELSE LET rest == JoinMissing_required(required, i + 1, cols)
       IN  required[i] \o (IF rest = "" THEN "" ELSE "," \o rest)

\* ",".join(missing_required), in the order of required_cols
RECURSIVE JoinMissing(_, _, _)
JoinMissing(required, i, cols) ==
  IF i > Len(required) THEN ""
  ELSE LET rest == JoinMissing(required, i + 1, cols)
       IN  IF required[i] \in cols THEN rest
           ELSE required[i] \o (IF rest = "" THEN "" ELSE "," \o rest)

\* the branch taken when a required column is absent from the frame
missing_required_columns(df, required, id_col) ==
  LET text == "missing_required_columns:" \o JoinMissing(required, 1, df.cols)
      out == DataFrame(df.cols \cup {"reject_reason"},
                       [i \in 1..Len(df.rows) |->
                          [reject_reason |-> text] @@ df.rows[i]])
  IN  [clean |-> DataFrame(out.cols, <<>>),
       quarantine |-> out,
       stats |->
         [total |-> Len(out.rows),
          clean |-> 0,
          quarantine |-> Len(out.rows),
          by_reason |-> value_counts(out.rows),
          duplicates |-> ("full_row" :> 0) @@ (id_col :> 0)]]

\* set(customers_clean["customer_id"].astype("string").str.strip())
\* (process_day never passes None for customers_clean)
customer_set(cust) ==
  IF "customer_id" \in cust.cols
  THEN {(IF cust.rows[i].customer_id = NA THEN NA
         ELSE Strip(cust.rows[i].customer_id)) :
           i \in 1..Len(cust.rows)}
  ELSE {}

\* ~customer_id.isin(customer_set) without the has_customer guard
orphan_unguarded(r, cust) ==
  (IF r.customer_id = NA THEN NA ELSE Strip(r.customer_id)) \notin customer_set(cust)

\* the orphan mask under bad_customer in place of has_customer
orphan_of_missing(r, cust) ==
  /\ is_missing_text(r.customer_id)
  /\ (IF r.customer_id = NA THEN NA ELSE Strip(r.customer_id))
       \notin customer_set(cust)

\* has_customer & ~customer_id.isin(customer_set)
orphan(r, cust) ==
  /\ ~is_missing_text(r.customer_id)
  /\ Strip(r.customer_id) \notin customer_set(cust)

\* df_ing.isna() | (df_ing == "") | (df_ing != str(ingest_date))
bad_ingest(r, cols, expected) ==
  /\ expected # NA
  /\ "ingest_date" \in cols
  /\ (r.ingest_date = NA \/ Strip(r.ingest_date) # expected)

max_duration_ms == 24 * 60 * 60 * 1000

events_required_cols ==
  <<"event_id", "customer_id", "event_time_utc", "event_type", "platform">>

orders_required_cols ==
  <<"order_id", "customer_id", "order_time_utc", "amount", "currency", "status">>

events_rules(r, cols, cust, expected) ==
  LET dur == IF "duration_ms" \in cols THEN r.duration_ms ELSE NaN
  IN  << Rule(is_missing_text(r.event_id), "missing_event_id"),
         Rule(is_missing_text(r.customer_id), "missing_customer_id"),
         Rule(is_missing_text(r.event_type), "missing_event_type"),
         Rule(r.platform = NA, "missing_platform"),
         Rule(r.event_time_utc = NaT, "invalid_event_time"),
         Rule(dur # NaN /\ dur[1] < 0, "negative_duration"),
         Rule(dur # NaN /\ dur[1] > max_duration_ms * 10, "duration_exceeds_max"),
         Rule(orphan(r, cust), "orphan_customer_id"),
         Rule(bad_ingest(r, cols, expected), "ingest_date_mismatch") >>

events_reason(r, cols, cust, expected) ==
  LET rules == events_rules(r, cols, cust, expected) IN Accumulate(rules, Len(rules))

split_clean_quarantine_events(df, cust, expected) ==
  LET required_cols == events_required_cols
      reason(r) == Finalize(events_reason(r, df.cols, cust, expected))
      out == WithReason(df, [i \in 1..Len(df.rows) |-> reason(df.rows[i])])
      quarantine == Quarantine(out)
      clean == Clean(out)
      valid_event_id(r) == r.event_id # NA /\ Strip(r.event_id) # ""
  IN  IF \E i \in 1..Len(required_cols) : required_cols[i] \notin df.cols
      THEN missing_required_columns(df, required_cols, "event_id")
      ELSE [clean |-> clean,
            quarantine |-> quarantine,
            stats |->
              [total |-> Len(out.rows),
               calen |-> Len(clean.rows),
               quarantine |-> Len(quarantine.rows),
               by_reason |-> value_counts(quarantine.rows),
               duplicates |->
                 [full_row |-> duplicated_rows(out.rows, out.cols),
                  event_id |->
                    duplicated_rows(SelectSeq(out.rows, valid_event_id),
                                    {"event_id"})]]]

\* paid_bad with amount < 0 in place of amount <= 0
paid_bad_strict(status_s, amount_num) ==
  status_s = "paid" /\ amount_num # NaN /\ amount_num[1] < 0

\* the status-dependent amount policy; amount_num is a numeric cell
paid_bad(status_s, amount_num) ==
  status_s = "paid" /\ amount_num # NaN /\ amount_num[1] <= 0

failed_bad(status_s, amount_num) ==
  status_s = "failed" /\ amount_num # NaN /\ amount_num[1] > 0

refund_bad(status_s, amount_num) ==
  status_s \in {"refunded", "chargeback"} /\ amount_num # NaN /\ amount_num[1] <= 0

orders_rules(r, cols, cust, expected) ==
  LET amount_num == r.amount
      status_s == IF r.status = NA THEN NA ELSE Lower(Strip(r.status))
  IN  << Rule(is_missing_text(r.order_id), "missing_order_id"),
         Rule(is_missing_text(r.customer_id), "missing_customer_id"),
         Rule(r.order_time_utc = NaT, "invalid_order_time"),
         Rule(r.currency = NA, "unknown_currency"),
         Rule(amount_num = NaN, "missing_amount"),
         Rule(amount_num # NaN /\ amount_num[1] < 0, "negative_amount"),
         Rule(paid_bad(status_s, amount_num), "paid_requires_positive_amount"),
         Rule(failed_bad(status_s, amount_num),
              "failed_should_not_have_positive_amount"),
         Rule(refund_bad(status_s, amount_num), "refund_requires_positive_amount"),
         Rule(is_missing_text(r.status), "missing_status"),
         Rule(orphan(r, cust), "orphan_customer_id"),
         Rule(bad_ingest(r, cols, expected), "ingest_date_mismatch") >>

orders_reason(r, cols, cust, expected) ==
  LET rules == orders_rules(r, cols, cust, expected) IN Accumulate(rules, Len(rules))

split_clean_quarantine_orders(df, cust, expected) ==
  LET required_cols == orders_required_cols
      reason(r) == Finalize(orders_reason(r, df.cols, cust, expected))
      out == WithReason(df, [i \in 1..Len(df.rows) |-> reason(df.rows[i])])
      quarantine == Quarantine(out)
      clean == Clean(out)
      valid_order_id(r) == r.order_id # NA /\ Strip(r.order_id) # ""
  IN  IF \E i \in 1..Len(required_cols) : required_cols[i] \notin df.cols
      THEN missing_required_columns(df, required_cols, "order_id")
      ELSE [clean |-> clean,
            quarantine |-> quarantine,
            stats |->
              [total |-> Len(out.rows),
               clean |-> Len(clean.rows),
               quarantine |-> Len(quarantine.rows),
               by_reason |-> value_counts(quarantine.rows),
               duplicates |->
                 [full_row |-> duplicated_rows(out.rows, out.cols),
                  order_id |->
                    duplicated_rows(SelectSeq(out.rows, valid_order_id),
                                    {"order_id"})]]]

(***************************************************************************)
(* metrics.py.  A float that is the quotient of two integers is the pair   *)
(* <<numerator, denominator>> in lowest terms; 0.0 is <<0, 1>>.            *)
(***************************************************************************)
RECURSIVE Gcd(_, _)
Gcd(a, b) == IF b = 0 THEN a ELSE Gcd(b, a % b)

\* float(n) / float(d), for d > 0
Frac(n, d) ==
  LET g == Gcd(IF n < 0 THEN 0 - n ELSE n, d) IN <<n \div g, d \div g>>

NumericCols == {"duration_ms", "amount"}

\* the missing value of a column, and Series.isna() of a cell
NullOf(c) == IF c \in TimeCols THEN NaT ELSE IF c \in NumericCols THEN NaN ELSE NA
IsNull(c, x) == c \notin BoolCols /\ x = NullOf(c)

\* pd.concat([a, b], ignore_index=True): the union of the columns, a cell
\* missing where a frame lacks the column
concat(a, b) ==
  LET cols == a.cols \cup b.cols
      fill(r) == [c \in cols |-> IF c \in DOMAIN r THEN r[c] ELSE NullOf(c)]
      n == Len(a.rows)
  IN  DataFrame(cols, [i \in 1..(n + Len(b.rows)) |->
                         IF i <= n THEN fill(a.rows[i]) ELSE fill(b.rows[i - n])])

\* the event time as it is, not floored to the hour
floor_hour_not(t) == t

\* event_time_utc.dt.floor("h")
floor_hour(t) == IF t = NaT THEN NaT ELSE <<t[1], t[2] - (t[2] % 3600)>>

compute_hourly_events(events) ==
  IF Len(events.rows) = 0
  THEN DataFrame({"ingest_date", "hour_utc", "event_count"}, <<>>)
  ELSE LET key(r) == [ingest_date |-> r.ingest_date,
                      hour_utc |-> floor_hour(r.event_time_utc)]
           keys == [i \in 1..Len(events.rows) |-> key(events.rows[i])]
           known(k) == k.hour_utc # NaT /\ k.ingest_date # NA
           groups == sort_values(
                       drop_duplicates(
                         DataFrame({"ingest_date", "hour_utc"},
                                   SelectSeq(keys, known)),
                         {"ingest_date", "hour_utc"}),
                       <<"ingest_date", "hour_utc">>)
           size(k) == Cardinality({i \in 1..Len(keys) : keys[i] = k})
       IN  DataFrame({"ingest_date", "hour_utc", "event_count"},
                     [g \in 1..Len(groups.rows) |->
                        [ingest_date |-> groups.rows[g].ingest_date,
                         hour_utc |-> groups.rows[g].hour_utc,
                         event_count |-> size(groups.rows[g])]])

\* a rate that is 1.0 over a zero total
safe_rate_one(num, den) == IF den # 0 THEN Frac(num, den) ELSE <<1, 1>>

safe_rate(num, den) == IF den # 0 THEN Frac(num, den) ELSE <<0, 1>>

\* float(df[col].isna().mean())
null_rate(df, col) ==
  IF Len(df.rows) = 0 \/ col \notin df.cols THEN <<0, 1>>
  ELSE Frac(Cardinality({i \in 1..Len(df.rows) : IsNull(col, df.rows[i][col])}),
            Len(df.rows))

\* the numeric cells of a column that are not NaN, in tenths, ascending
RECURSIVE InsertInt(_, _)
InsertInt(sorted, x) ==
  IF sorted = <<>> THEN <<x>>
  ELSE IF x < Head(sorted) THEN <<x>> \o sorted
  ELSE <<Head(sorted)>> \o InsertInt(Tail(sorted), x)

RECURSIVE SortedValues(_, _, _)
SortedValues(rows, n, col) ==
  IF n = 0 THEN <<>>
  ELSE IF rows[n][col] = NaN THEN SortedValues(rows, n - 1, col)
  ELSE InsertInt(SortedValues(rows, n - 1, col), rows[n][col][1])

\* Series.quantile(q / 100), linear interpolation; v is ascending, not empty;
\* the result is in tenths
quantile(v, q) ==
  LET pos == q * (Len(v) - 1)
      lo == (pos \div 100) + 1
      hi == IF lo < Len(v) THEN lo + 1 ELSE lo
  IN  Frac(v[lo] * 100 + (pos % 100) * (v[hi] - v[lo]), 100)

p50_p95(df, col) ==
  IF Len(df.rows) = 0 \/ col \notin df.cols THEN <<(<<0, 1>>), (<<0, 1>>)>>
  ELSE LET v == SortedValues(df.rows, Len(df.rows), col)
       IN  IF v = <<>> THEN <<(<<0, 1>>), (<<0, 1>>)>>
           ELSE <<quantile(v, 50), quantile(v, 95)>>

\* % of rows whose id appears more than once
id_duplicate_rate(df, id_col) ==
  IF Len(df.rows) = 0 \/ id_col \notin df.cols THEN <<0, 1>>
  ELSE Frac(duplicated_rows(df.rows, {id_col}), Len(df.rows))

\* % of rows that are full-row duplicates (no subset is passed)
full_row_duplicate_rate(df) ==
  IF Len(df.rows) = 0 THEN <<0, 1>>
  ELSE Frac(duplicated_rows(df.rows, df.cols), Len(df.rows))

\* the orphan rate that looks at the customers before it looks at the rows
orphan_rate_customers_first(df, customers_df) ==
  IF Len(customers_df.rows) = 0 \/ "customer_id" \notin customers_df.cols
  THEN <<1, 1>>
  ELSE IF Len(df.rows) = 0 \/ "customer_id" \notin df.cols THEN <<0, 1>>
  ELSE LET valid == {customers_df.rows[i].customer_id :
                       i \in 1..Len(customers_df.rows)} \ {NA}
       IN  Frac(Cardinality({i \in 1..Len(df.rows) :
                               AsStr(df.rows[i].customer_id) \notin valid}),
                Len(df.rows))

\* the rate of the rows whose customer_id is present in customers_clean
orphan_rate_matched(df, customers_df) ==
  IF Len(df.rows) = 0 \/ "customer_id" \notin df.cols THEN <<0, 1>>
  ELSE IF Len(customers_df.rows) = 0 \/ "customer_id" \notin customers_df.cols
  THEN <<1, 1>>
  ELSE LET valid == {customers_df.rows[i].customer_id :
                       i \in 1..Len(customers_df.rows)} \ {NA}
       IN  Frac(Cardinality({i \in 1..Len(df.rows) :
                               AsStr(df.rows[i].customer_id) \in valid}),
                Len(df.rows))

\* % of rows where customer_id is not present in customers_clean
orphan_rate(df, customers_df) ==
  IF Len(df.rows) = 0 \/ "customer_id" \notin df.cols THEN <<0, 1>>
  ELSE IF Len(customers_df.rows) = 0 \/ "customer_id" \notin customers_df.cols
  THEN <<1, 1>>
  ELSE LET valid == {customers_df.rows[i].customer_id :
                       i \in 1..Len(customers_df.rows)} \ {NA}
       IN  Frac(Cardinality({i \in 1..Len(df.rows) :
                               AsStr(df.rows[i].customer_id) \notin valid}),
                Len(df.rows))

\* df[col].astype("string").fillna("NULL").value_counts().to_dict()
breakdown_counts(df, col) ==
  IF Len(df.rows) = 0 \/ col \notin df.cols THEN <<>>
  ELSE LET text(x) == IF x = NA THEN "NULL" ELSE x
       IN  [x \in {text(df.rows[i][col]) : i \in 1..Len(df.rows)} |->
              Cardinality({i \in 1..Len(df.rows) : text(df.rows[i][col]) = x})]

\* int(df["customer_id"].nunique()), 0 for an empty frame
active_customers(df) ==
  IF Len(df.rows) = 0 \/ "customer_id" \notin df.cols THEN 0
  ELSE Cardinality({df.rows[i].customer_id : i \in 1..Len(df.rows)} \ {NA})

\* the ONE-row frame of metrics for a given ingest_date (the three *_cleaned_raw
\* arguments are never passed)
compute_daily_metrics(date, cust_clean, cust_quarantine, ev_clean, ev_quarantine, ord_clean, ord_quarantine) ==
  LET customers_total == Len(cust_clean.rows) + Len(cust_quarantine.rows)
      events_total == Len(ev_clean.rows) + Len(ev_quarantine.rows)
      orders_total == Len(ord_clean.rows) + Len(ord_quarantine.rows)
      events_for_ts == concat(ev_clean, ev_quarantine)
      orders_for_ts == concat(ord_clean, ord_quarantine)
      duration == p50_p95(ev_clean, "duration_ms")
      amount == p50_p95(ord_clean, "amount")
      row ==
        [ingest_date |-> date,
         customers_total |-> customers_total,
         customers_clean |-> Len(cust_clean.rows),
         customers_quarantine |-> Len(cust_quarantine.rows),
         events_total |-> events_total,
         events_clean |-> Len(ev_clean.rows),
         events_quarantine |-> Len(ev_quarantine.rows),
         orders_total |-> orders_total,
         orders_clean |-> Len(ord_clean.rows),
         orders_quarantine |-> Len(ord_quarantine.rows),
         active_customers_events |-> active_customers(ev_clean),
         active_customers_orders |-> active_customers(ord_clean),
         quarantine_rate_customers |->
           safe_rate(Len(cust_quarantine.rows), customers_total),
         quarantine_rate_events |-> safe_rate(Len(ev_quarantine.rows), events_total),
         quarantine_rate_orders |-> safe_rate(Len(ord_quarantine.rows), orders_total),
         invalid_event_timestamp_rate |-> null_rate(events_for_ts, "event_time_utc"),
         invalid_order_timestamp_rate |-> null_rate(orders_for_ts, "order_time_utc"),
         orphan_customer_rate_events |-> orphan_rate(ev_clean, cust_clean),
         orphan_customer_rate_orders |-> orphan_rate(ord_clean, cust_clean),
         duplicate_id_rate_events |-> id_duplicate_rate(events_for_ts, "event_id"),
         duplicate_id_rate_orders |-> id_duplicate_rate(orders_for_ts, "order_id"),
         duplicate_fullrow_rate_events |-> full_row_duplicate_rate(events_for_ts),
         duplicate_fullrow_rate_orders |-> full_row_duplicate_rate(orders_for_ts),
         null_rate_customers_email |-> null_rate(cust_clean, "email"),
         null_rate_customers_country |-> null_rate(cust_clean, "country"),
         null_rate_orders_amount |-> null_rate(ord_clean, "amount"),
         null_rate_orders_currency |-> null_rate(ord_clean, "currency"),
         duration_ms_p50 |-> duration[1],
         duration_ms_p95 |-> duration[2],
         amount_p50 |-> amount[1],
         amount_p95 |-> amount[2],
         events_by_event_type |-> breakdown_counts(ev_clean, "event_type"),
         events_by_platform |-> breakdown_counts(ev_clean, "platform"),
         orders_by_status |-> breakdown_counts(ord_clean, "status")]
  IN  DataFrame(DOMAIN row, <<row>>)

\* no frame: the file does not exist (os.path.exists(path) is False), or None
\* is passed in place of a frame
Missing == [missing |-> TRUE]

(***************************************************************************)
(* alerts.py.  The flags are a sequence of records, in the order they are  *)
(* appended.                                                               *)
(***************************************************************************)
\* Series.median() of the events_clean of the rows, doubled (it stays an integer)
median2(rows) ==
  LET v == SortedValues([i \in 1..Len(rows) |->
                           [events_clean |-> Num(rows[i].events_clean)]],
                        Len(rows), "events_clean")
      n == Len(v)
  IN  IF n % 2 = 1 THEN 2 * v[(n + 1) \div 2] ELSE v[n \div 2] + v[(n \div 2) + 1]

\* df.tail(n)
tail(rows, n) ==
  IF Len(rows) <= n THEN rows ELSE SubSeq(rows, Len(rows) - n + 1, Len(rows))

\* the missing hour coverage flag, raised already at the threshold
missing_hour_coverage_at_threshold(date, hourly_events, th) ==
  LET of_day(r) == r.ingest_date = date
      day_df == SelectSeq(hourly_events.rows, of_day)
      zero_hours == Cardinality({i \in 1..Len(day_df) : day_df[i].event_count = 0})
      present_hours == Cardinality({day_df[i].hour_utc : i \in 1..Len(day_df)} \ {NaT})
      missing_hours == IF th.expected_hours - present_hours > 0
                       THEN th.expected_hours - present_hours ELSE 0
      total_bad_hours == zero_hours + missing_hours
  IN  IF hourly_events = Missing \/ Len(hourly_events.rows) = 0
      THEN << [type |-> "missing_hour_coverage", severity |-> "high",
               details |-> [reason |-> "hourly_events is empty for ingest_date",
                            missing_hours |-> th.expected_hours,
                            expected_hours |-> th.expected_hours]] >>
      ELSE IF day_df = <<>>
      THEN << [type |-> "missing_hour_coverage", severity |-> "high",
               details |-> [reason |-> "no hourly rows found for ingest_date",
                            missing_hours |-> th.expected_hours,
                            expected_hours |-> th.expected_hours]] >>
      ELSE IF total_bad_hours >= th.missing_hours_threshold
      THEN << [type |-> "missing_hour_coverage", severity |-> "medium",
               details |-> [zero_hours |-> zero_hours,
                            missing_hours |-> missing_hours,
                            total_bad_hours |-> total_bad_hours,
                            threshold |-> th.missing_hours_threshold,
                            expected_hours |-> th.expected_hours]] >>
      ELSE <<>>

\* the first part of detect_partial_load: the missing hour coverage flag;
\* hourly_events is Missing when None is passed
missing_hour_coverage(date, hourly_events, th) ==
  LET of_day(r) == r.ingest_date = date
      day_df == SelectSeq(hourly_events.rows, of_day)
      zero_hours == Cardinality({i \in 1..Len(day_df) : day_df[i].event_count = 0})
      present_hours == Cardinality({day_df[i].hour_utc : i \in 1..Len(day_df)} \ {NaT})
      missing_hours == IF th.expected_hours - present_hours > 0
                       THEN th.expected_hours - present_hours ELSE 0
      total_bad_hours == zero_hours + missing_hours
  IN  IF hourly_events = Missing \/ Len(hourly_events.rows) = 0
      THEN << [type |-> "missing_hour_coverage", severity |-> "high",
               details |-> [reason |-> "hourly_events is empty for ingest_date",
                            missing_hours |-> th.expected_hours,
                            expected_hours |-> th.expected_hours]] >>
      ELSE IF day_df = <<>>
      THEN << [type |-> "missing_hour_coverage", severity |-> "high",
               details |-> [reason |-> "no hourly rows found for ingest_date",
                            missing_hours |-> th.expected_hours,
                            expected_hours |-> th.expected_hours]] >>
      ELSE IF total_bad_hours > th.missing_hours_threshold
      THEN << [type |-> "missing_hour_coverage", severity |-> "medium",
               details |-> [zero_hours |-> zero_hours,
                            missing_hours |-> missing_hours,
                            total_bad_hours |-> total_bad_hours,
                            threshold |-> th.missing_hours_threshold,
                            expected_hours |-> th.expected_hours]] >>
      ELSE <<>>

\* the volume drop flag, raised already at a drop of volume_drop_pct
volume_drop_at_pct(date, history, th) ==
  LET sorted == sort_values(history, <<"ingest_date">>)
      is_today(r) == r.ingest_date = date
      is_prior(r) == StrLess(r.ingest_date, date)
      today_row == SelectSeq(sorted.rows, is_today)
      today_events_clean == today_row[1].events_clean
      prior == tail(SelectSeq(sorted.rows, is_prior), th.trailing_days)
      trailing_median2 == median2(prior)
      pct == th.volume_drop_pct
  IN  IF history = Missing THEN <<>>
      ELSE IF Len(history.rows) = 0 THEN <<>>
      ELSE IF "ingest_date" \notin history.cols \/ "events_clean" \notin history.cols
      THEN <<>>
      ELSE IF today_row = <<>> THEN <<>>
      ELSE IF prior = <<>> THEN <<>>
      ELSE IF /\ trailing_median2 > 0
              /\ (trailing_median2 - 2 * today_events_clean) * pct[2]
                   >= pct[1] * trailing_median2
      THEN << [type |-> "volume_drop_vs_trailing_median", severity |-> "high",
               details |->
                 [today_events_clean |-> today_events_clean,
                  trailing_days_used |-> Len(prior),
                  trailing_median_events_clean |-> Frac(trailing_median2, 2),
                  drop_ratio |-> Frac(trailing_median2 - 2 * today_events_clean,
                                      trailing_median2),
                  threshold_drop_pct |-> pct]] >>
      ELSE <<>>

\* the second part of detect_partial_load: the volume drop flag; history is
\* Missing when None is passed
volume_drop(date, history, th) ==
  LET sorted == sort_values(history, <<"ingest_date">>)
      is_today(r) == r.ingest_date = date
      is_prior(r) == StrLess(r.ingest_date, date)
      today_row == SelectSeq(sorted.rows, is_today)
      today_events_clean == today_row[1].events_clean
      prior == tail(SelectSeq(sorted.rows, is_prior), th.trailing_days)
      trailing_median2 == median2(prior)
      pct == th.volume_drop_pct
  IN  IF history = Missing THEN <<>>
      ELSE IF Len(history.rows) = 0 THEN <<>>
      ELSE IF "ingest_date" \notin history.cols \/ "events_clean" \notin history.cols
      THEN <<>>
      ELSE IF today_row = <<>> THEN <<>>
      ELSE IF prior = <<>> THEN <<>>
      ELSE IF /\ trailing_median2 > 0
              /\ (trailing_median2 - 2 * today_events_clean) * pct[2]
                   > pct[1] * trailing_median2
      THEN << [type |-> "volume_drop_vs_trailing_median", severity |-> "high",
               details |->
                 [today_events_clean |-> today_events_clean,
                  trailing_days_used |-> Len(prior),
                  trailing_median_events_clean |-> Frac(trailing_median2, 2),
                  drop_ratio |-> Frac(trailing_median2 - 2 * today_events_clean,
                                      trailing_median2),
                  threshold_drop_pct |-> pct]] >>
      ELSE <<>>

detect_partial_load(date, hourly_events, history, th) ==
  [ingest_date |-> date,
   flags |-> missing_hour_coverage(date, hourly_events, th)
               \o volume_drop(date, history, th)]

(***************************************************************************)
(* pipeline.py : the two metrics files.  Each writer reads the file, if it *)
(* exists, and then writes the whole file again.                           *)
(***************************************************************************)
\* old[old["ingest_date"] != day]
other_days(df, day) ==
  LET other(r) == r.ingest_date # day IN DataFrame(df.cols, SelectSeq(df.rows, other))

\* what append_hourly writes, given what it read (Missing: no file)
append_hourly(old_file, hourly_df) ==
  IF old_file = Missing THEN hourly_df
  ELSE IF Len(hourly_df.rows) = 0 THEN concat(old_file, hourly_df)
  ELSE concat(other_days(old_file, hourly_df.rows[1].ingest_date), hourly_df)

\* upsert_daily_metrics that keeps the old row of the date
upsert_daily_metrics_append(old_file, new_row) ==
  IF old_file = Missing THEN new_row
  ELSE sort_values(concat(old_file, new_row), <<"ingest_date">>)

\* what upsert_daily_metrics writes, given what it read (Missing: no file)
upsert_daily_metrics(old_file, new_row) ==
  IF old_file = Missing THEN new_row
  ELSE sort_values(concat(other_days(old_file, new_row.rows[1].ingest_date),
                          new_row),
                   <<"ingest_date">>)

(***************************************************************************)
(* The raw partition: the rows a day's three CSV files may hold.  Each row *)
(* is a well-formed base row, or the base row with one cell replaced.      *)
(***************************************************************************)
Dates == {"2025-12-10"}

CustomerCols == {"customer_id", "email", "created_at", "country", "status",
                 "ingest_date"}
EventCols == {"event_id", "customer_id", "event_time", "event_type", "platform",
              "session_id", "duration_ms", "ingest_date"}
OrderCols == {"order_id", "customer_id", "order_time", "amount", "currency",
              "status", "ingest_date"}

\* the frame pd.read_csv returns for the rows of a file
customers_frame(rows) == DataFrame(CustomerCols, rows)
events_frame(rows) == DataFrame(EventCols, rows)
orders_frame(rows) == DataFrame(OrderCols, rows)

BaseCustomer ==
  [customer_id |-> "C00001", email |-> "a@b.com", created_at |-> "2025-01-01",
   country |-> "USA", status |-> "Active", ingest_date |-> "2025-12-10"]

CustomerCells ==
  [customer_id |-> {"c00002", "id c00001 x", NA},
   email |-> {"bad-email", NA},
   created_at |-> {"2025-06-01T10:00:00Z", "not a date", "1850-01-01"},
   country |-> {"France"},
   status |-> {"inactiv", "enabled"},
   ingest_date |-> {}]

BaseEvent ==
  [event_id |-> "e1", customer_id |-> "C00001",
   event_time |-> "2025-12-10T10:00:00Z", event_type |-> "Click",
   platform |-> "iPhone", session_id |-> "s1", duration_ms |-> "10.0",
   ingest_date |-> "2025-12-10"]

EventCells ==
  [event_id |-> {"e2", NA},
   customer_id |-> {"c00002", NA},
   event_time |-> {"2025-12-10T11:00:00Z", "not-a-date"},
   event_type |-> {"view", NA},
   platform |-> {"xbox"},
   session_id |-> {NA},
   duration_ms |-> {"-5", "86400001", ""},
   ingest_date |-> {}]

BaseOrder ==
  [order_id |-> "o1", customer_id |-> "C00001",
   order_time |-> "2025-12-10T10:00:00Z", amount |-> "10.0", currency |-> "$",
   status |-> "paid", ingest_date |-> "2025-12-10"]

OrderCells ==
  [order_id |-> {"o2", NA},
   customer_id |-> {"c00002", NA},
   order_time |-> {"2025-12-10 11:00:00", "20251301"},
   amount |-> {"0", "-5", ""},
   currency |-> {"EUR", "???"},
   status |-> {"failed", "refunded", "bogus", NA},
   ingest_date |-> {}]

Variants(base, cells) ==
  {base} \cup UNION {{[base EXCEPT ![c] = v] : v \in cells[c]} : c \in DOMAIN cells}

CustomerRows == Variants(BaseCustomer, CustomerCells)
EventRows == Variants(BaseEvent, EventCells)
OrderRows == Variants(BaseOrder, OrderCells)

\* orders over every (status, amount) pair, for the amount policy
PolicyStatuses == {"paid", "Succeeded", "failed", "refunded", "chargeback",
                   "bogus", NA}
PolicyAmounts == {"10.0", "0", "-5", "", "abc"}
OrderPolicyRows ==
  {[BaseOrder EXCEPT !.status = st, !.amount = a] :
     st \in PolicyStatuses, a \in PolicyAmounts}

\* rows of one business key that tie or differ on the ranking keys, and a
\* row of another key
DedupCustomers ==
  {BaseCustomer,
   [BaseCustomer EXCEPT !.email = "bad-email"],
   [BaseCustomer EXCEPT !.email = NA],
   [BaseCustomer EXCEPT !.created_at = "2025-06-01T10:00:00Z"],
   [BaseCustomer EXCEPT !.created_at = "not a date"],
   [BaseCustomer EXCEPT !.customer_id = "id c00001 x", !.country = "France"],
   [BaseCustomer EXCEPT !.customer_id = "c00002"]}
DedupEvents ==
  {BaseEvent,
   [BaseEvent EXCEPT !.event_type = "view"],
   [BaseEvent EXCEPT !.customer_id = NA],
   [BaseEvent EXCEPT !.platform = "xbox"],
   [BaseEvent EXCEPT !.session_id = NA],
   [BaseEvent EXCEPT !.duration_ms = ""],
   [BaseEvent EXCEPT !.event_time = "2025-12-10T11:00:00Z"],
   [BaseEvent EXCEPT !.event_time = "not-a-date"],
   [BaseEvent EXCEPT !.event_id = "e2"]}
DedupOrders ==
  {BaseOrder,
   [BaseOrder EXCEPT !.currency = "EUR"],
   [BaseOrder EXCEPT !.customer_id = NA],
   [BaseOrder EXCEPT !.amount = ""],
   [BaseOrder EXCEPT !.status = NA],
   [BaseOrder EXCEPT !.order_time = "2025-12-10 11:00:00"],
   [BaseOrder EXCEPT !.order_time = "20251301"],
   [BaseOrder EXCEPT !.order_id = "o2"]}

\* rows that break no rule, one rule or several rules at once
RuleCustomers ==
  {BaseCustomer,
   [BaseCustomer EXCEPT !.customer_id = "c00002"],
   [BaseCustomer EXCEPT !.customer_id = NA, !.email = "bad-email",
                        !.status = "enabled"],
   [BaseCustomer EXCEPT !.customer_id = "c00003", !.created_at = "1850-01-01",
                        !.country = "France", !.email = NA]}
RuleEvents ==
  {BaseEvent,
   [BaseEvent EXCEPT !.event_id = "e2", !.duration_ms = "-5"],
   [BaseEvent EXCEPT !.event_id = "e3", !.customer_id = NA, !.platform = "xbox",
                     !.duration_ms = "86400001"],
   [BaseEvent EXCEPT !.event_id = NA, !.customer_id = "c00002",
                     !.event_time = "not-a-date", !.event_type = NA]}
RuleOrders ==
  {BaseOrder,
   [BaseOrder EXCEPT !.order_id = "o2", !.amount = "-5"],
   [BaseOrder EXCEPT !.order_id = "o3", !.currency = "???", !.amount = "",
                     !.status = NA],
   [BaseOrder EXCEPT !.order_id = "o4", !.customer_id = "c00002",
                     !.status = "failed"],
   [BaseOrder EXCEPT !.order_id = NA, !.customer_id = NA,
                     !.order_time = "20251301", !.status = "refunded",
                     !.amount = "0"]}

\* the ingest_date a caller of the validators may pass: none, the partition's
\* date, another date
ValidateDates == {NA, "2025-12-10", "2025-12-09"}

\* the dates main calls process_day for, and what the three files of a
\* partition may hold when they are read: nothing; one valid row each; several
\* rows, some of them rejected; events that are all rejected
RunDates == {"2025-12-09", "2025-12-10"}

DayPartitions ==
  {[customers |-> <<>>, events |-> <<>>, orders |-> <<>>],
   [customers |-> <<BaseCustomer>>, events |-> <<BaseEvent>>,
    orders |-> <<BaseOrder>>],
   [customers |-> <<BaseCustomer>>,
    events |-> <<BaseEvent,
                 [BaseEvent EXCEPT !.event_id = "e2",
                                   !.event_time = "2025-12-10T11:00:00Z"],
                 [BaseEvent EXCEPT !.event_id = "e3", !.customer_id = "c00002"]>>,
    orders |-> <<BaseOrder, [BaseOrder EXCEPT !.order_id = "o2", !.amount = "-5"]>>],
   [customers |-> <<BaseCustomer, [BaseCustomer EXCEPT !.email = "bad-email"]>>,
    events |-> <<[BaseEvent EXCEPT !.event_time = "not-a-date"]>>,
    orders |-> <<>>]}

\* partitions for runs in different years: a customer whose created_at is two
\* years after the first run, or a customer of the past
ClockPartitions ==
  {[customers |-> <<[BaseCustomer EXCEPT !.created_at = "2028-01-01"]>>,
    events |-> <<BaseEvent>>, orders |-> <<BaseOrder>>],
   [customers |-> <<BaseCustomer>>, events |-> <<BaseEvent>>,
    orders |-> <<BaseOrder>>]}

\* a few rows of each file, for the runs that vary the caller instead
CustomerSeeds == {BaseCustomer, [BaseCustomer EXCEPT !.email = "bad-email"]}
EventSeeds == {BaseEvent, [BaseEvent EXCEPT !.customer_id = NA],
               [BaseEvent EXCEPT !.event_id = "e2", !.event_time = "not-a-date"]}
OrderSeeds == {BaseOrder, [BaseOrder EXCEPT !.customer_id = "c00002"],
               [BaseOrder EXCEPT !.order_id = "o2", !.amount = "-5"]}

\* the columns a caller of the validators may have left out of the frame
EventDrops == {{"platform"}, {"event_id"}, {"event_time_utc"},
               {"customer_id", "event_type"}, {"duration_ms"}}
OrderDrops == {{"amount"}, {"order_id"}, {"order_time_utc"}, {"customer_id"},
               {"currency", "status"}}

(***************************************************************************)
(* pipeline.py : process_day, one action per step.                         *)
(***************************************************************************)
\* a local of process_day that is not assigned yet
Unset == [unset |-> TRUE]

Loaded == Len(customers_raw) + Len(events_raw) + Len(orders_raw)

\* pd.read_csv(customers_path): one more row of customers_raw.csv
LoadCustomer(r) ==
  /\ pc = "load"
  /\ Loaded < MaxRows
  /\ customers_raw' = Append(customers_raw, r)
  /\ UNCHANGED <<current_year, ingest_date, events_raw, orders_raw,
                 customers_cleaned, events_cleaned, orders_cleaned,
                 customers_clean, customers_quarantine, cust_stats,
                 events_clean, events_quarantine, ev_stats,
                 orders_clean, orders_quarantine, ord_stats, pc>>
  /\ UNCHANGED tail_vars

LoadEvent(r) ==
  /\ pc = "load"
  /\ Loaded < MaxRows
  /\ events_raw' = Append(events_raw, r)
  /\ UNCHANGED <<current_year, ingest_date, customers_raw, orders_raw,
                 customers_cleaned, events_cleaned, orders_cleaned,
                 customers_clean, customers_quarantine, cust_stats,
                 events_clean, events_quarantine, ev_stats,
                 orders_clean, orders_quarantine, ord_stats, pc>>
  /\ UNCHANGED tail_vars

LoadOrder(r) ==
  /\ pc = "load"
  /\ Loaded < MaxRows
  /\ orders_raw' = Append(orders_raw, r)
  /\ UNCHANGED <<current_year, ingest_date, customers_raw, events_raw,
                 customers_cleaned, events_cleaned, orders_cleaned,
                 customers_clean, customers_quarantine, cust_stats,
                 events_clean, events_quarantine, ev_stats,
                 orders_clean, orders_quarantine, ord_stats, pc>>
  /\ UNCHANGED tail_vars

CleanCustomers ==
  /\ pc = "load"
  /\ customers_cleaned' =
       clean_customers(customers_frame(customers_raw), ingest_date)
  /\ pc' = "clean_events"
  /\ UNCHANGED <<current_year, ingest_date, customers_raw, events_raw, orders_raw,
                 events_cleaned, orders_cleaned,
                 customers_clean, customers_quarantine, cust_stats,
                 events_clean, events_quarantine, ev_stats,
                 orders_clean, orders_quarantine, ord_stats>>
  /\ UNCHANGED tail_vars

CleanEvents ==
  /\ pc = "clean_events"
  /\ events_cleaned' = clean_events(events_frame(events_raw), ingest_date)
  /\ pc' = "clean_orders"
  /\ UNCHANGED <<current_year, ingest_date, customers_raw, events_raw, orders_raw,
                 customers_cleaned, orders_cleaned,
                 customers_clean, customers_quarantine, cust_stats,
                 events_clean, events_quarantine, ev_stats,
                 orders_clean, orders_quarantine, ord_stats>>
  /\ UNCHANGED tail_vars

CleanOrders ==
  /\ pc = "clean_orders"
  /\ orders_cleaned' = clean_orders(orders_frame(orders_raw), ingest_date)
  /\ pc' = "validate_customers"
  /\ UNCHANGED <<current_year, ingest_date, customers_raw, events_raw, orders_raw,
                 customers_cleaned, events_cleaned,
                 customers_clean, customers_quarantine, cust_stats,
                 events_clean, events_quarantine, ev_stats,
                 orders_clean, orders_quarantine, ord_stats>>
  /\ UNCHANGED tail_vars

\* split_clean_quarantine_customers(customers_cleaned); process_day passes no
\* ingest_date (validate_date is NA)
ValidateCustomers ==
  /\ pc = "validate_customers"
  /\ LET out == split_clean_quarantine_customers(customers_cleaned,
                                                 validate_date)
     IN  /\ customers_clean' = out.clean
         /\ customers_quarantine' = out.quarantine
         /\ cust_stats' = out.stats
  /\ pc' = "validate_events"
  /\ UNCHANGED <<current_year, ingest_date, customers_raw, events_raw, orders_raw,
                 customers_cleaned, events_cleaned, orders_cleaned,
                 events_clean, events_quarantine, ev_stats,
                 orders_clean, orders_quarantine, ord_stats>>
  /\ UNCHANGED tail_vars

ValidateEvents ==
  /\ pc = "validate_events"
  /\ LET out == split_clean_quarantine_events(events_cleaned, customers_clean,
                                              validate_date)
     IN  /\ events_clean' = out.clean
         /\ events_quarantine' = out.quarantine
         /\ ev_stats' = out.stats
  /\ pc' = "validate_orders"
  /\ UNCHANGED <<current_year, ingest_date, customers_raw, events_raw, orders_raw,
                 customers_cleaned, events_cleaned, orders_cleaned,
                 customers_clean, customers_quarantine, cust_stats,
                 orders_clean, orders_quarantine, ord_stats>>
  /\ UNCHANGED tail_vars

ValidateOrders ==
  /\ pc = "validate_orders"
  /\ LET out == split_clean_quarantine_orders(orders_cleaned, customers_clean,
                                              validate_date)
     IN  /\ orders_clean' = out.clean
         /\ orders_quarantine' = out.quarantine
         /\ ord_stats' = out.stats
  /\ pc' = "write"
  /\ UNCHANGED <<current_year, ingest_date, customers_raw, events_raw, orders_raw,
                 customers_cleaned, events_cleaned, orders_cleaned,
                 customers_clean, customers_quarantine, cust_stats,
                 events_clean, events_quarantine, ev_stats>>
  /\ UNCHANGED tail_vars

\* a caller hands split_clean_quarantine_events a frame without the columns D
DropEventsColumns(D) ==
  /\ pc = "validate_events"
  /\ events_cleaned.cols = EventCols \cup {"event_time_utc"}
  /\ events_cleaned' = drop(events_cleaned, D)
  /\ UNCHANGED <<current_year, ingest_date, customers_raw, events_raw, orders_raw,
                 customers_cleaned, orders_cleaned,
                 customers_clean, customers_quarantine, cust_stats,
                 events_clean, events_quarantine, ev_stats,
                 orders_clean, orders_quarantine, ord_stats, pc>>
  /\ UNCHANGED tail_vars

\* a caller hands split_clean_quarantine_orders a frame without the columns D
DropOrdersColumns(D) ==
  /\ pc = "validate_orders"
  /\ orders_cleaned.cols = OrderCols \cup {"order_time_utc"}
  /\ orders_cleaned' = drop(orders_cleaned, D)
  /\ UNCHANGED <<current_year, ingest_date, customers_raw, events_raw, orders_raw,
                 customers_cleaned, events_cleaned,
                 customers_clean, customers_quarantine, cust_stats,
                 events_clean, events_quarantine, ev_stats,
                 orders_clean, orders_quarantine, ord_stats, pc>>
  /\ UNCHANGED tail_vars

\* the defaults of detect_partial_load's keyword arguments; volume_drop_pct is
\* the fraction <<numerator, denominator>>
DefaultThresholds ==
  [missing_hours_threshold |-> 4, trailing_days |-> 7,
   volume_drop_pct |-> <<1, 2>>, expected_hours |-> 24]

\* process_day has just been called: nothing is read or computed yet
Entered ==
  /\ customers_raw = <<>> /\ events_raw = <<>> /\ orders_raw = <<>>
  /\ customers_cleaned = Unset /\ events_cleaned = Unset /\ orders_cleaned = Unset
  /\ customers_clean = Unset /\ customers_quarantine = Unset /\ cust_stats = Unset
  /\ events_clean = Unset /\ events_quarantine = Unset /\ ev_stats = Unset
  /\ orders_clean = Unset /\ orders_quarantine = Unset /\ ord_stats = Unset
  /\ hourly = Unset /\ old = Unset /\ daily_row = Unset
  /\ hist = Unset /\ alerts = Unset

\* an empty out_dir, and the defaults of the alert thresholds
OutDirEmpty ==
  /\ current_year = 2026
  /\ hourly_events_parquet = Missing /\ daily_metrics_parquet = Missing
  /\ thresholds = DefaultThresholds
  /\ previous = Unset
  /\ latest = <<>>
  /\ peer = Unset

\* the first run against an empty out_dir
FirstRun ==
  /\ OutDirEmpty
  /\ Entered
  /\ runs = 1
  /\ pc = "load"

Init ==
  /\ FirstRun
  /\ ingest_date \in Dates
  /\ validate_date = NA

Next ==
  \/ \E r \in CustomerRows : LoadCustomer(r)
  \/ \E r \in EventRows : LoadEvent(r)
  \/ \E r \in OrderRows : LoadOrder(r)
  \/ CleanCustomers
  \/ CleanEvents
  \/ CleanOrders
  \/ ValidateCustomers
  \/ ValidateEvents
  \/ ValidateOrders

Spec == Init /\ [][Next]_vars

\* process_day over orders of every (status, amount) pair
NextOrders ==
  \/ \E r \in CustomerSeeds : LoadCustomer(r)
  \/ \E r \in EventSeeds : LoadEvent(r)
  \/ \E r \in OrderPolicyRows : LoadOrder(r)
  \/ CleanCustomers
  \/ CleanEvents
  \/ CleanOrders
  \/ ValidateCustomers
  \/ ValidateEvents
  \/ ValidateOrders

SpecOrders == Init /\ [][NextOrders]_vars

\* process_day over rows that compete in deduplication
NextDedup ==
  \/ \E r \in DedupCustomers : LoadCustomer(r)
  \/ \E r \in DedupEvents : LoadEvent(r)
  \/ \E r \in DedupOrders : LoadOrder(r)
  \/ CleanCustomers
  \/ CleanEvents
  \/ CleanOrders
  \/ ValidateCustomers
  \/ ValidateEvents
  \/ ValidateOrders

SpecDedup == Init /\ [][NextDedup]_vars

\* the validators called on frames that lack columns
NextCaller ==
  \/ \E r \in CustomerSeeds : LoadCustomer(r)
  \/ \E r \in EventSeeds : LoadEvent(r)
  \/ \E r \in OrderSeeds : LoadOrder(r)
  \/ CleanCustomers
  \/ CleanEvents
  \/ CleanOrders
  \/ ValidateCustomers
  \/ \E D \in EventDrops : DropEventsColumns(D)
  \/ ValidateEvents
  \/ \E D \in OrderDrops : DropOrdersColumns(D)
  \/ ValidateOrders

SpecCaller == Init /\ [][NextCaller]_vars

\* the validators called with an ingest_date, on rows that break several rules
InitRules ==
  /\ FirstRun
  /\ ingest_date \in Dates
  /\ validate_date \in ValidateDates

NextRules ==
  \/ \E r \in RuleCustomers : LoadCustomer(r)
  \/ \E r \in RuleEvents : LoadEvent(r)
  \/ \E r \in RuleOrders : LoadOrder(r)
  \/ CleanCustomers
  \/ CleanEvents
  \/ CleanOrders
  \/ ValidateCustomers
  \/ ValidateEvents
  \/ ValidateOrders

SpecRules == InitRules /\ [][NextRules]_vars

(***************************************************************************)
(* pipeline.py : main calls process_day for one date after another; the    *)
(* steps of process_day after the validators.                              *)
(***************************************************************************)
MaxRuns == 3

\* what the current call read, and what it produced
Inputs ==
  [ingest_date |-> ingest_date, customers_raw |-> customers_raw,
   events_raw |-> events_raw, orders_raw |-> orders_raw]

Outputs ==
  [customers_clean |-> customers_clean,
   customers_quarantine |-> customers_quarantine,
   events_clean |-> events_clean, events_quarantine |-> events_quarantine,
   orders_clean |-> orders_clean, orders_quarantine |-> orders_quarantine,
   validation_report |-> [ingest_date |-> ingest_date, customers |-> cust_stats,
                          events |-> ev_stats, orders |-> ord_stats],
   hourly |-> hourly, daily_row |-> daily_row, alerts |-> alerts]

\* main: process_day(d) is called and reads the three files of the partition
CallProcessDay(d, b) ==
  /\ pc \in {"idle", "done"}
  /\ runs < MaxRuns
  /\ runs' = runs + 1
  /\ ingest_date' = d
  /\ customers_raw' = b.customers
  /\ events_raw' = b.events
  /\ orders_raw' = b.orders
  /\ customers_cleaned' = Unset /\ events_cleaned' = Unset
  /\ orders_cleaned' = Unset
  /\ customers_clean' = Unset /\ customers_quarantine' = Unset
  /\ cust_stats' = Unset
  /\ events_clean' = Unset /\ events_quarantine' = Unset /\ ev_stats' = Unset
  /\ orders_clean' = Unset /\ orders_quarantine' = Unset /\ ord_stats' = Unset
  /\ hourly' = Unset /\ old' = Unset /\ daily_row' = Unset
  /\ hist' = Unset /\ alerts' = Unset
  /\ previous' = IF pc = "done"
                 THEN [inputs |-> Inputs, outputs |-> Outputs,
                       year |-> current_year,
                       prior |-> other_days(hist, ingest_date),
                       daily_metrics_parquet |-> daily_metrics_parquet,
                       hourly_events_parquet |-> hourly_events_parquet]
                 ELSE previous
  /\ pc' = "load"
  /\ UNCHANGED <<current_year, validate_date, hourly_events_parquet,
                 daily_metrics_parquet, thresholds, latest, peer>>

\* the partitions and the report are written; hourly = compute_hourly_events(...)
ComputeHourly ==
  /\ pc = "write"
  /\ hourly' = compute_hourly_events(events_clean)
  /\ pc' = "read_hourly"
  /\ UNCHANGED <<current_year, ingest_date, head_vars, validate_date, old,
                 daily_row, hist, alerts, hourly_events_parquet,
                 daily_metrics_parquet, thresholds, runs, previous, latest, peer>>

\* append_hourly: os.path.exists(hourly_path) and pd.read_parquet(hourly_path)
ReadHourly ==
  /\ pc = "read_hourly"
  /\ old' = hourly_events_parquet
  /\ pc' = "write_hourly"
  /\ UNCHANGED <<current_year, ingest_date, head_vars, validate_date, hourly,
                 daily_row, hist, alerts, hourly_events_parquet,
                 daily_metrics_parquet, thresholds, runs, previous, latest, peer>>

\* append_hourly: out.to_parquet(hourly_path)
WriteHourly ==
  /\ pc = "write_hourly"
  /\ hourly_events_parquet' = append_hourly(old, hourly)
  /\ pc' = "daily"
  /\ UNCHANGED <<current_year, ingest_date, head_vars, validate_date, hourly,
                 old, daily_row, hist, alerts, daily_metrics_parquet, thresholds,
                 runs, previous, latest, peer>>

ComputeDaily ==
  /\ pc = "daily"
  /\ daily_row' = compute_daily_metrics(ingest_date, customers_clean,
                                        customers_quarantine, events_clean,
                                        events_quarantine, orders_clean,
                                        orders_quarantine)
  /\ pc' = "read_daily"
  /\ UNCHANGED <<current_year, ingest_date, head_vars, validate_date, hourly,
                 old, hist, alerts, hourly_events_parquet, daily_metrics_parquet,
                 thresholds, runs, previous, latest, peer>>

\* upsert_daily_metrics: os.path.exists(metrics_path) and pd.read_parquet
ReadDaily ==
  /\ pc = "read_daily"
  /\ old' = daily_metrics_parquet
  /\ pc' = "write_daily"
  /\ UNCHANGED <<current_year, ingest_date, head_vars, validate_date, hourly,
                 daily_row, hist, alerts, hourly_events_parquet,
                 daily_metrics_parquet, thresholds, runs, previous, latest, peer>>

\* WriteDaily that leaves the file alone: the upsert is put off until after
\* the alerts
WriteDaily_deferred ==
  /\ pc = "write_daily"
  /\ pc' = "read_hist"
  /\ UNCHANGED <<current_year, ingest_date, head_vars, validate_date, hourly,
                 old, daily_row, hist, alerts, hourly_events_parquet,
                 daily_metrics_parquet, thresholds, runs, previous, latest, peer>>

\* upsert_daily_metrics: out.to_parquet(metrics_path)
WriteDaily ==
  /\ pc = "write_daily"
  /\ daily_metrics_parquet' = upsert_daily_metrics(old, daily_row)
  /\ pc' = "read_hist"
  /\ UNCHANGED <<current_year, ingest_date, head_vars, validate_date, hourly,
                 old, daily_row, hist, alerts, hourly_events_parquet, thresholds,
                 runs, previous, latest, peer>>

\* hist = None; if os.path.exists(daily_metrics_path): hist = pd.read_parquet(...)
ReadHistory ==
  /\ pc = "read_hist"
  /\ hist' = daily_metrics_parquet
  /\ pc' = "alerts"
  /\ UNCHANGED <<current_year, ingest_date, head_vars, validate_date, hourly,
                 old, daily_row, alerts, hourly_events_parquet,
                 daily_metrics_parquet, thresholds, runs, previous, latest, peer>>

\* alerts = detect_partial_load(ingest_date, hourly, hist); process_day returns
DetectPartialLoad ==
  /\ pc = "alerts"
  /\ alerts' = detect_partial_load(ingest_date, hourly, hist, thresholds)
  /\ latest' = (ingest_date :> [daily_row |-> daily_row, hourly |-> hourly])
                 @@ latest
  /\ pc' = "done"
  /\ UNCHANGED <<current_year, ingest_date, head_vars, validate_date, hourly,
                 old, daily_row, hist, hourly_events_parquet,
                 daily_metrics_parquet, thresholds, runs, previous, peer>>

\* main has not called process_day yet; out_dir is empty
Idle ==
  /\ OutDirEmpty
  /\ Entered
  /\ runs = 0
  /\ pc = "idle"
  /\ ingest_date = NA
  /\ validate_date = NA

\* the steps of process_day after the files are read
ProcessDaySteps ==
  \/ CleanCustomers
  \/ CleanEvents
  \/ CleanOrders
  \/ ValidateCustomers
  \/ ValidateEvents
  \/ ValidateOrders
  \/ ComputeHourly
  \/ ReadHourly
  \/ WriteHourly
  \/ ComputeDaily
  \/ ReadDaily
  \/ WriteDaily
  \/ ReadHistory
  \/ DetectPartialLoad

\* main runs process_day for a sequence of dates, one call after the other
NextDays ==
  \/ \E d \in RunDates, b \in DayPartitions : CallProcessDay(d, b)
  \/ ProcessDaySteps

SpecDays == Idle /\ [][NextDays]_vars

(***************************************************************************)
(* process_day over partitions whose files repeat rows and ids.            *)
(***************************************************************************)
\* whole rows repeated; ids repeated in rows that differ; ids that differ in
\* case or blanks only; ids that are missing; repeated ids in rows that are
\* all rejected; no repetition
DupPartitions ==
  {[customers |-> <<BaseCustomer, BaseCustomer>>,
    events |-> <<BaseEvent, BaseEvent>>,
    orders |-> <<BaseOrder, BaseOrder>>],
   [customers |-> <<BaseCustomer, [BaseCustomer EXCEPT !.email = "bad-email"]>>,
    events |-> <<BaseEvent, [BaseEvent EXCEPT !.event_type = "view"], BaseEvent>>,
    orders |-> <<BaseOrder, [BaseOrder EXCEPT !.currency = "EUR"]>>],
   [customers |-> <<BaseCustomer,
                    [BaseCustomer EXCEPT !.customer_id = "id c00001 x"]>>,
    events |-> <<BaseEvent, [BaseEvent EXCEPT !.event_id = " e1"],
                 [BaseEvent EXCEPT !.event_id = "E1"]>>,
    orders |-> <<BaseOrder, [BaseOrder EXCEPT !.order_id = "o1 "]>>],
   [customers |-> <<[BaseCustomer EXCEPT !.customer_id = NA],
                    [BaseCustomer EXCEPT !.customer_id = "12345"], BaseCustomer>>,
    events |-> <<[BaseEvent EXCEPT !.event_id = NA],
                 [BaseEvent EXCEPT !.event_id = NA, !.event_type = "view"],
                 [BaseEvent EXCEPT !.event_id = " "]>>,
    orders |-> <<[BaseOrder EXCEPT !.order_id = NA],
                 [BaseOrder EXCEPT !.order_id = "none"]>>],
   [customers |-> <<[BaseCustomer EXCEPT !.email = "bad-email"],
                    [BaseCustomer EXCEPT !.email = NA]>>,
    events |-> <<[BaseEvent EXCEPT !.event_time = "not-a-date"],
                 [BaseEvent EXCEPT !.event_time = "not-a-date",
                                   !.event_type = "view"]>>,
    orders |-> <<[BaseOrder EXCEPT !.amount = "-5"],
                 [BaseOrder EXCEPT !.amount = "-5", !.currency = "EUR"]>>],
   [customers |-> <<BaseCustomer>>,
    events |-> <<BaseEvent, [BaseEvent EXCEPT !.event_id = "e2"]>>,
    orders |-> <<BaseOrder, [BaseOrder EXCEPT !.order_id = "o2"]>>]}

NextDups ==
  \/ \E b \in DupPartitions : CallProcessDay("2025-12-10", b)
  \/ ProcessDaySteps

SpecDups == Idle /\ [][NextDups]_vars

(***************************************************************************)
(* A second process_day invocation, for another date, run by the caller in *)
(* parallel with the first.  What it computes from its own partition       *)
(* touches nothing shared and is one step; its reads and writes of the two *)
(* metrics files are steps of their own.                                   *)
(***************************************************************************)
\* the second invocation up to its first read of a metrics file: it cleans and
\* validates its partition and computes its hourly frame and its daily row
PeerCall(d, b) ==
  /\ pc # "idle"
  /\ peer = Unset
  /\ d # ingest_date
  /\ \E cust_cleaned \in {clean_customers(customers_frame(b.customers), d)},
        ev_cleaned \in {clean_events(events_frame(b.events), d)},
        ord_cleaned \in {clean_orders(orders_frame(b.orders), d)} :
       \E cust \in {split_clean_quarantine_customers(cust_cleaned, NA)} :
         \E ev \in {split_clean_quarantine_events(ev_cleaned, cust.clean, NA)},
            ord \in {split_clean_quarantine_orders(ord_cleaned, cust.clean, NA)} :
           peer' = [pc |-> "read_hourly", ingest_date |-> d, old |-> Unset,
                    hourly |-> compute_hourly_events(ev.clean),
                    daily_row |->
                      compute_daily_metrics(d, cust.clean, cust.quarantine,
                                            ev.clean, ev.quarantine,
                                            ord.clean, ord.quarantine)]
  /\ UNCHANGED <<current_year, ingest_date, head_vars, pc, validate_date, hourly,
                 old, daily_row, hist, alerts, hourly_events_parquet,
                 daily_metrics_parquet, thresholds, runs, previous, latest>>

PeerReadHourly ==
  /\ peer # Unset
  /\ peer.pc = "read_hourly"
  /\ peer' = [peer EXCEPT !.old = hourly_events_parquet, !.pc = "write_hourly"]
  /\ UNCHANGED <<current_year, ingest_date, head_vars, pc, validate_date, hourly,
                 old, daily_row, hist, alerts, hourly_events_parquet,
                 daily_metrics_parquet, thresholds, runs, previous, latest>>

PeerWriteHourly ==
  /\ peer # Unset
  /\ peer.pc = "write_hourly"
  /\ hourly_events_parquet' = append_hourly(peer.old, peer.hourly)
  /\ peer' = [peer EXCEPT !.pc = "read_daily"]
  /\ UNCHANGED <<current_year, ingest_date, head_vars, pc, validate_date, hourly,
                 old, daily_row, hist, alerts, daily_metrics_parquet, thresholds,
                 runs, previous, latest>>

PeerReadDaily ==
  /\ peer # Unset
  /\ peer.pc = "read_daily"
  /\ peer' = [peer EXCEPT !.old = daily_metrics_parquet, !.pc = "write_daily"]
  /\ UNCHANGED <<current_year, ingest_date, head_vars, pc, validate_date, hourly,
                 old, daily_row, hist, alerts, hourly_events_parquet,
                 daily_metrics_parquet, thresholds, runs, previous, latest>>

PeerWriteDaily ==
  /\ peer # Unset
  /\ peer.pc = "write_daily"
  /\ daily_metrics_parquet' = upsert_daily_metrics(peer.old, peer.daily_row)
  /\ peer' = [peer EXCEPT !.pc = "done"]
  /\ UNCHANGED <<current_year, ingest_date, head_vars, pc, validate_date, hourly,
                 old, daily_row, hist, alerts, hourly_events_parquet, thresholds,
                 runs, previous, latest>>

\* one process_day call, and a second one for another date in parallel
NextParallel ==
  \/ \E d \in RunDates, b \in DayPartitions : pc = "idle" /\ CallProcessDay(d, b)
  \/ ProcessDaySteps
  \/ \E d \in RunDates, b \in DayPartitions : PeerCall(d, b)
  \/ PeerReadHourly
  \/ PeerWriteHourly
  \/ PeerReadDaily
  \/ PeerWriteDaily

SpecParallel == Idle /\ [][NextParallel]_vars

(***************************************************************************)
(* The clock: datetime.now(timezone.utc).year is read by                   *)
(* parse_timestamp_to_utc and by the customers validator, and the year may *)
(* change between two calls of process_day.                                *)
(***************************************************************************)
LastYear == 2027

NewYear ==
  /\ pc \in {"idle", "done"}
  /\ current_year < LastYear
  /\ current_year' = current_year + 1
  /\ UNCHANGED <<ingest_date, head_vars, pc, tail_vars>>

NextClock ==
  \/ \E d \in RunDates, b \in ClockPartitions : CallProcessDay(d, b)
  \/ ProcessDaySteps
  \/ NewYear

SpecClock == Idle /\ [][NextClock]_vars

(***************************************************************************)
(* detect_partial_load called by itself, as tests/test_alerts.py calls it: *)
(* the hourly frame, the history and the thresholds are the caller's.      *)
(***************************************************************************)
\* the most rows of an hourly frame, and the most rows (and days) of a history
MaxHourly == 2
MaxHistory == 3

\* pd.Timestamp("2025-12-10T0h:00:00Z")
Hour(h) == <<20432, 3600 * h>>

HourlyRows ==
  [ingest_date : RunDates, hour_utc : {Hour(0), Hour(1), NaT}, event_count : {0, 10}]

\* None, and the frames of at most MaxHourly rows
HourlyFrames ==
  {Missing} \cup
  {DataFrame({"ingest_date", "hour_utc", "event_count"}, rows) :
     rows \in UNION {[1..n -> HourlyRows] : n \in 0..MaxHourly}}

\* every expected hour of 2025-12-10 with events, for expected_hours = 2
FullHourly ==
  DataFrame({"ingest_date", "hour_utc", "event_count"},
            <<[ingest_date |-> "2025-12-10", hour_utc |-> Hour(0), event_count |-> 10],
              [ingest_date |-> "2025-12-10", hour_utc |-> Hour(1), event_count |-> 10]>>)

HistoryDays ==
  <<"2025-12-10", "2025-12-09", "2025-12-08", "2025-12-07", "2025-12-06">>

HistoryRows ==
  [ingest_date : {HistoryDays[i] : i \in 1..MaxHistory},
   events_clean : {0, 100, 500, 1000}]

DistinctDates(rows) ==
  \A i, j \in 1..Len(rows) : rows[i].ingest_date = rows[j].ingest_date => i = j

\* the history of tests/test_alerts.py with a stable volume
StableHistory ==
  DataFrame({"ingest_date", "events_clean"},
            <<[ingest_date |-> "2025-12-09", events_clean |-> 2300],
              [ingest_date |-> "2025-12-10", events_clean |-> 2400]>>)

\* a history without the events_clean column
NoMetricHistory ==
  DataFrame({"ingest_date"}, <<[ingest_date |-> "2025-12-09"],
                               [ingest_date |-> "2025-12-10"]>>)

\* None, and the histories of at most MaxHistory rows in any order, one row for
\* a date as upsert_daily_metrics leaves them
Histories ==
  {Missing, StableHistory, NoMetricHistory} \cup
  {DataFrame({"ingest_date", "events_clean"}, rows) :
     rows \in {r \in UNION {[1..n -> HistoryRows] : n \in 0..MaxHistory} :
                 DistinctDates(r)}}

\* the keyword arguments that decide the hour coverage flag
HourThresholds ==
  {[DefaultThresholds EXCEPT !.missing_hours_threshold = t, !.expected_hours = e] :
     t \in {0, 1, 4}, e \in {2, 24}}

\* the keyword arguments that decide the volume drop flag
VolumeThresholds ==
  {[DefaultThresholds EXCEPT !.trailing_days = 7, !.expected_hours = 2],
   [DefaultThresholds EXCEPT !.trailing_days = 1, !.expected_hours = 2],
   [DefaultThresholds EXCEPT !.trailing_days = 0, !.expected_hours = 2],
   [DefaultThresholds EXCEPT !.volume_drop_pct = <<9, 10>>, !.expected_hours = 2]}

\* detect_partial_load is about to be called: its arguments
InitAlerts ==
  /\ current_year = 2026
  /\ hourly_events_parquet = Missing /\ daily_metrics_parquet = Missing
  /\ previous = Unset /\ latest = <<>> /\ peer = Unset
  /\ customers_raw = <<>> /\ events_raw = <<>> /\ orders_raw = <<>>
  /\ customers_cleaned = Unset /\ events_cleaned = Unset /\ orders_cleaned = Unset
  /\ customers_clean = Unset /\ customers_quarantine = Unset /\ cust_stats = Unset
  /\ events_clean = Unset /\ events_quarantine = Unset /\ ev_stats = Unset
  /\ orders_clean = Unset /\ orders_quarantine = Unset /\ ord_stats = Unset
  /\ old = Unset /\ daily_row = Unset /\ alerts = Unset
  /\ validate_date = NA
  /\ runs = 1
  /\ pc = "alerts"
  /\ ingest_date \in RunDates
  /\ \/ /\ hourly \in HourlyFrames
        /\ hist \in {Missing, StableHistory}
        /\ thresholds \in HourThresholds
     \/ /\ hourly = FullHourly
        /\ hist \in Histories
        /\ thresholds \in VolumeThresholds

NextAlerts == DetectPartialLoad

SpecAlerts == InitAlerts /\ [][NextAlerts]_vars

(***************************************************************************)
(* compute_hourly_events and compute_daily_metrics called by themselves,   *)
(* as tests/test_metrics.py calls them, on the caller's frames.            *)
(***************************************************************************)
\* the frames of at most MaxRows rows over a set of rows
FramesOf(cols, rows) ==
  {DataFrame(cols, r) : r \in UNION {[1..n -> rows] : n \in 0..MaxRows}}

MetricCustomerCols == {"customer_id", "email", "country"}
MetricEventCols ==
  {"ingest_date", "event_id", "customer_id", "event_time_utc", "event_type",
   "platform", "duration_ms"}
MetricOrderCols ==
  {"order_id", "customer_id", "order_time_utc", "amount", "currency", "status"}

MetricCustomer(id) == [customer_id |-> id, email |-> "a@x.com", country |-> "US"]

\* clean customers: none, one, two, and one without a customer_id
MetricCustomers ==
  {DataFrame(MetricCustomerCols, <<>>),
   DataFrame(MetricCustomerCols, <<MetricCustomer("c00001")>>),
   DataFrame(MetricCustomerCols, <<MetricCustomer("c00001"), MetricCustomer("c00002")>>),
   DataFrame(MetricCustomerCols, <<MetricCustomer(NA)>>)}

\* quarantined customers: none, one
MetricCustomersQuarantine ==
  {DataFrame(MetricCustomerCols, <<>>),
   DataFrame({"customer_id"}, <<[customer_id |-> "c00003"]>>)}

MetricEvent(d, c, t) ==
  [ingest_date |-> d, event_id |-> "e1", customer_id |-> c,
   event_time_utc |-> <<20432, t>>, event_type |-> "click", platform |-> "ios",
   duration_ms |-> <<1000>>]

\* events at 00:10, 00:50 and 01:05 of 2025-12-10, of a known customer, of an
\* unknown one and of none, and an event of another ingest_date
MetricEventRows ==
  {MetricEvent("2025-12-10", c, t) :
     c \in {"c00001", "c00009", NA}, t \in {600, 3000, 3900}}
  \cup {MetricEvent("2025-12-09", "c00001", 600)}

\* quarantined events: none, one without a time
MetricEventsQuarantine ==
  {DataFrame(MetricEventCols, <<>>),
   DataFrame(MetricEventCols \cup {"reject_reason"},
             <<[ingest_date |-> "2025-12-10", event_id |-> "e9",
                customer_id |-> "c00001", event_time_utc |-> NaT,
                event_type |-> "click", platform |-> "ios", duration_ms |-> NaN,
                reject_reason |-> "invalid_event_time"]>>)}

MetricOrderRows ==
  {[order_id |-> "o1", customer_id |-> c, order_time_utc |-> <<20432, 10800>>,
    amount |-> a, currency |-> "USD", status |-> "paid"] :
     c \in {"c00001", "c00009", NA}, a \in {<<100>>, <<205>>}}

\* quarantined orders: none, one
MetricOrdersQuarantine ==
  {DataFrame(MetricOrderCols, <<>>),
   DataFrame(MetricOrderCols \cup {"reject_reason"},
             <<[order_id |-> "o9", customer_id |-> "c00001",
                order_time_utc |-> <<20432, 14400>>, amount |-> NaN,
                currency |-> NA, status |-> "paid",
                reject_reason |-> "missing_amount|missing_currency"]>>)}

\* the two functions are about to be called: their arguments
InitMetrics ==
  /\ current_year = 2026
  /\ hourly_events_parquet = Missing /\ daily_metrics_parquet = Missing
  /\ thresholds = DefaultThresholds
  /\ previous = Unset /\ latest = <<>> /\ peer = Unset
  /\ customers_raw = <<>> /\ events_raw = <<>> /\ orders_raw = <<>>
  /\ customers_cleaned = Unset /\ events_cleaned = Unset /\ orders_cleaned = Unset
  /\ cust_stats = Unset /\ ev_stats = Unset /\ ord_stats = Unset
  /\ hourly = Unset /\ old = Unset /\ daily_row = Unset
  /\ hist = Unset /\ alerts = Unset
  /\ validate_date = NA
  /\ runs = 1
  /\ pc = "metrics"
  /\ ingest_date = "2025-12-10"
  /\ customers_clean \in MetricCustomers
  /\ customers_quarantine \in MetricCustomersQuarantine
  /\ \/ /\ events_clean \in FramesOf(MetricEventCols, MetricEventRows)
        /\ events_quarantine \in MetricEventsQuarantine
        /\ orders_clean = DataFrame(MetricOrderCols, <<>>)
        /\ orders_quarantine = DataFrame(MetricOrderCols, <<>>)
     \/ /\ events_clean = DataFrame(MetricEventCols, <<>>)
        /\ events_quarantine = DataFrame(MetricEventCols, <<>>)
        /\ orders_clean \in FramesOf(MetricOrderCols, MetricOrderRows)
        /\ orders_quarantine \in MetricOrdersQuarantine

\* hourly = compute_hourly_events(events_clean)
CallComputeHourlyEvents ==
  /\ pc = "metrics"
  /\ hourly = Unset
  /\ hourly' = compute_hourly_events(events_clean)
  /\ UNCHANGED <<current_year, ingest_date, head_vars, pc, validate_date, old,
                 daily_row, hist, alerts, hourly_events_parquet,
                 daily_metrics_parquet, thresholds, runs, previous, latest, peer>>

\* daily_row = compute_daily_metrics(ingest_date, ...)
CallComputeDailyMetrics ==
  /\ pc = "metrics"
  /\ daily_row = Unset
  /\ daily_row' = compute_daily_metrics(ingest_date, customers_clean,
                                        customers_quarantine, events_clean,
                                        events_quarantine, orders_clean,
                                        orders_quarantine)
  /\ UNCHANGED <<current_year, ingest_date, head_vars, pc, validate_date, hourly,
                 old, hist, alerts, hourly_events_parquet,
                 daily_metrics_parquet, thresholds, runs, previous, latest, peer>>

NextMetrics ==
  \/ CallComputeHourlyEvents
  \/ CallComputeDailyMetrics

SpecMetrics == InitMetrics /\ [][NextMetrics]_vars

(***************************************************************************)
(* normalize_customer_id over one raw customer_id cell: clean_customers    *)
(* applies it to the customer_id of each row.                              *)
(***************************************************************************)
\* raw customer_id cells: what stands before, at and after an id or a token
IdLeads == {"", " ", "order ref ", "x", "C", "cc"}
IdCores == {"c12345", "C12345", "c99999", "c1234", "12345", "c123456", "c12a45",
            "customer_123", "null", "NONE", "n/a", ""}
IdTrails == {"", " ", " xyz", "7", "\n"}

IdCells == {NA} \cup {a \o b \o c : a \in IdLeads, b \in IdCores, c \in IdTrails}

\* a customers file of one row
NextIds ==
  \/ \E v \in IdCells :
       customers_raw = <<>> /\ LoadCustomer([BaseCustomer EXCEPT !.customer_id = v])
  \/ CleanCustomers

SpecIds == Init /\ [][NextIds]_vars

(***************************************************************************)
(* Batches whose business keys are missing: the cell is empty (read as     *)
(* NaN), blank, or one of the words is_missing_text takes for a missing    *)
(* value; customer ids are also ones normalize_customer_id cannot parse.   *)
(***************************************************************************)
MissingKeyCells == {NA, " ", "none"}
UnparseableIds == {NA, "12345", "customer_123"}

\* created_at cells: in range, before 1900, after next year
OutOfRangeCreatedAt == {"1850-01-01", "2999-06-01T00:00:00Z"}
KeyCreatedAt == {"2025-01-01"} \cup OutOfRangeCreatedAt

KeyCustomers ==
  {[BaseCustomer EXCEPT !.customer_id = v, !.created_at = t] :
     v \in UnparseableIds \cup {"C00001"}, t \in KeyCreatedAt}
KeyEvents ==
  {[BaseEvent EXCEPT !.event_id = v, !.session_id = x] :
     v \in MissingKeyCells \cup {"e1"}, x \in {"s1", "s2"}}
KeyOrders ==
  {[BaseOrder EXCEPT !.order_id = v, !.amount = a] :
     v \in MissingKeyCells \cup {"o1"}, a \in {"10.0", "20.0"}}

NextKeys ==
  \/ \E r \in KeyCustomers : LoadCustomer(r)
  \/ \E r \in KeyEvents : LoadEvent(r)
  \/ \E r \in KeyOrders : LoadOrder(r)
  \/ CleanCustomers
  \/ CleanEvents
  \/ CleanOrders
  \/ ValidateCustomers
  \/ ValidateEvents
  \/ ValidateOrders

SpecKeys == Init /\ [][NextKeys]_vars

(***************************************************************************)
(* Properties.                                                             *)
(***************************************************************************)
CustomersValidated ==
  pc \notin {"load", "clean_events", "clean_orders", "validate_customers"}
EventsValidated == CustomersValidated /\ pc # "validate_events"
OrdersValidated == EventsValidated /\ pc # "validate_orders"

\* process_day has cleaned and validated the three files
Done == pc = "write"

RowsOf(df) == {df.rows[i] : i \in 1..Len(df.rows)}
KeysOf(df, key) == {df.rows[i][key] : i \in 1..Len(df.rows)}

\* the quarantine rows that are the input row r with its reason added
QuarantinedAs(r, cols, quarantine) ==
  {j \in 1..Len(quarantine.rows) : Project(quarantine.rows[j], cols) = r}

Partition(input, clean, quarantine, key) ==
  /\ Len(clean.rows) + Len(quarantine.rows) = Len(input.rows)
  /\ KeysOf(clean, key) \cap KeysOf(quarantine, key) = {}
  /\ \A i \in 1..Len(input.rows) :
       (input.rows[i] \in RowsOf(clean))
         # (QuarantinedAs(input.rows[i], input.cols, quarantine) # {})

Matched(rules) == \E k \in 1..Len(rules) : rules[k].mask

\* rules[i] is the rules applied to the input row i
SplitByRules(input, clean, quarantine, rules) ==
  /\ \A i \in 1..Len(input.rows) :
       LET r == input.rows[i]
       IN  /\ Matched(rules[i]) <=> QuarantinedAs(r, input.cols, quarantine) # {}
           /\ ~Matched(rules[i]) <=> r \in RowsOf(clean)
  /\ \A j \in 1..Len(quarantine.rows) :
       /\ quarantine.rows[j].reject_reason # NA
       /\ quarantine.rows[j].reject_reason # ""
  /\ \A j \in 1..Len(clean.rows) : "reject_reason" \notin DOMAIN clean.rows[j]

C3_CleanHasNoRejectReason ==
  /\ CustomersValidated => "reject_reason" \notin customers_clean.cols
  /\ EventsValidated => "reject_reason" \notin events_clean.cols
  /\ OrdersValidated => "reject_reason" \notin orders_clean.cols

Absent(required, df) ==
  {required[i] : i \in 1..Len(required)} \ df.cols

\* the reason the documentation gives for each set of absent columns
MissingColumnsReason ==
  ({"platform"} :> "missing_required_columns:platform")
  @@ ({"event_id"} :> "missing_required_columns:event_id")
  @@ ({"event_time_utc"} :> "missing_required_columns:event_time_utc")
  @@ ({"customer_id", "event_type"}
        :> "missing_required_columns:customer_id,event_type")
  @@ ({"amount"} :> "missing_required_columns:amount")
  @@ ({"order_id"} :> "missing_required_columns:order_id")
  @@ ({"order_time_utc"} :> "missing_required_columns:order_time_utc")
  @@ ({"customer_id"} :> "missing_required_columns:customer_id")
  @@ ({"currency", "status"} :> "missing_required_columns:currency,status")

AllRejectedAs(input, clean, quarantine, stats, text) ==
  /\ clean.rows = <<>>
  /\ Len(quarantine.rows) = Len(input.rows)
  /\ \A i \in 1..Len(input.rows) :
       /\ Project(quarantine.rows[i], input.cols) = input.rows[i]
       /\ quarantine.rows[i].reject_reason = text
  /\ stats.total = Len(input.rows)
  /\ stats.clean = 0
  /\ stats.quarantine = Len(input.rows)

\* C4: when the frame given to the events or the orders validator lacks a
\* required column, the validator returns an empty CLEAN batch, quarantines
\* every record with the one reason missing_required_columns:<absent columns,
\* comma-joined>, and reports clean = 0 and quarantine = total.
C4_MissingRequiredColumns ==
  /\ (EventsValidated /\ Absent(events_required_cols, events_cleaned) # {}) =>
       AllRejectedAs(events_cleaned, events_clean, events_quarantine, ev_stats,
                     MissingColumnsReason[Absent(events_required_cols,
                                                 events_cleaned)])
  /\ (OrdersValidated /\ Absent(orders_required_cols, orders_cleaned) # {}) =>
       AllRejectedAs(orders_cleaned, orders_clean, orders_quarantine, ord_stats,
                     MissingColumnsReason[Absent(orders_required_cols,
                                                 orders_cleaned)])

C4_Witness ==
  /\ Done
  /\ Absent(events_required_cols, events_cleaned) = {"customer_id", "event_type"}
  /\ Absent(orders_required_cols, orders_cleaned) = {"amount"}
  /\ Len(events_quarantine.rows) = 1
  /\ Len(orders_quarantine.rows) = 1

UniqueKeys(df, key) ==
  \A i, j \in 1..Len(df.rows) : i # j => df.rows[i][key] # df.rows[j][key]

\* C5: after clean_customers, clean_events and clean_orders no two records of
\* the output share a business key, and so none do in a CLEAN batch either.
C5_UniqueKeys ==
  Done =>
    /\ UniqueKeys(customers_cleaned, "customer_id")
    /\ UniqueKeys(events_cleaned, "event_id")
    /\ UniqueKeys(orders_cleaned, "order_id")
    /\ UniqueKeys(customers_clean, "customer_id")
    /\ UniqueKeys(events_clean, "event_id")
    /\ UniqueKeys(orders_clean, "order_id")

C5_Witness ==
  /\ Done
  /\ Len(orders_raw) = 2
  /\ orders_raw[1] # orders_raw[2]
  /\ orders_raw[1].order_id = orders_raw[2].order_id
  /\ Len(orders_cleaned.rows) = 1

\* every reordering of the rows of a raw file
Permuted(rows) ==
  {[i \in 1..Len(rows) |-> rows[p[i]]] : p \in Permutations(1..Len(rows))}

\* C6 as the documentation states it: whatever the order of the raw rows, the
\* cleaners keep the same set of records.
C6_OrderIndependent ==
  Done =>
    /\ \A p \in Permuted(customers_raw) :
         RowsOf(clean_customers(customers_frame(p), ingest_date))
           = RowsOf(customers_cleaned)
    /\ \A p \in Permuted(events_raw) :
         RowsOf(clean_events(events_frame(p), ingest_date)) = RowsOf(events_cleaned)
    /\ \A p \in Permuted(orders_raw) :
         RowsOf(clean_orders(orders_frame(p), ingest_date)) = RowsOf(orders_cleaned)

\* the business key and the ranking keys of a row
RankOf(r, by) == Project(r, {by[i] : i \in 1..Len(by)})

\* two different rows with the same business key and the same ranking keys
Tied(ranked, by) ==
  \E i, j \in 1..Len(ranked.rows) :
     /\ ranked.rows[i] # ranked.rows[j]
     /\ RankOf(ranked.rows[i], by) = RankOf(ranked.rows[j], by)

SetMaxOf(S) == CHOOSE x \in S : \A y \in S : y <= x

\* deduped is the survivors of the ranked rows, cleaned the frame returned
LastOfTiedKept(ranked, deduped, cleaned, by) ==
  /\ Len(cleaned.rows) = Len(deduped.rows)
  /\ \A k \in 1..Len(deduped.rows) :
       LET s == deduped.rows[k]
           same == {i \in 1..Len(ranked.rows) :
                      RankOf(ranked.rows[i], by) = RankOf(s, by)}
       IN  /\ cleaned.rows[k] = Project(s, cleaned.cols)
           /\ same # {}
           /\ s = ranked.rows[SetMaxOf(same)]

\* C6, amended: the surviving business keys and each survivor's ranking keys do
\* not depend on the order of the raw rows, and neither do the surviving
\* records when no two different rows of a key tie on every ranking key; of
\* rows that tie, the one that comes last in the input is kept.
C6_OrderIndependentUpToTies ==
  Done =>
    /\ LET ranked == customers_ranked(customers_frame(customers_raw), ingest_date)
           here == customers_deduped(customers_frame(customers_raw), ingest_date)
           ranks == {RankOf(r, customers_sort_by) : r \in RowsOf(here)}
           tied == Tied(ranked, customers_sort_by)
       IN  /\ LastOfTiedKept(ranked, here, customers_cleaned, customers_sort_by)
           /\ \A p \in Permuted(customers_raw) :
                LET there == customers_deduped(customers_frame(p), ingest_date)
                IN  /\ {RankOf(r, customers_sort_by) : r \in RowsOf(there)} = ranks
                    /\ ~tied => RowsOf(drop(there, customers_helper))
                                  = RowsOf(customers_cleaned)
    /\ LET ranked == events_ranked(events_frame(events_raw), ingest_date)
           here == events_deduped(events_frame(events_raw), ingest_date)
           ranks == {RankOf(r, events_sort_by) : r \in RowsOf(here)}
           tied == Tied(ranked, events_sort_by)
       IN  /\ LastOfTiedKept(ranked, here, events_cleaned, events_sort_by)
           /\ \A p \in Permuted(events_raw) :
                LET there == events_deduped(events_frame(p), ingest_date)
                IN  /\ {RankOf(r, events_sort_by) : r \in RowsOf(there)} = ranks
                    /\ ~tied => RowsOf(drop(there, events_helper))
                                  = RowsOf(events_cleaned)
    /\ LET ranked == orders_ranked(orders_frame(orders_raw), ingest_date)
           here == orders_deduped(orders_frame(orders_raw), ingest_date)
           ranks == {RankOf(r, orders_sort_by) : r \in RowsOf(here)}
           tied == Tied(ranked, orders_sort_by)
       IN  /\ LastOfTiedKept(ranked, here, orders_cleaned, orders_sort_by)
           /\ \A p \in Permuted(orders_raw) :
                LET there == orders_deduped(orders_frame(p), ingest_date)
                IN  /\ {RankOf(r, orders_sort_by) : r \in RowsOf(there)} = ranks
                    /\ ~tied => RowsOf(drop(there, orders_helper))
                                  = RowsOf(orders_cleaned)

\* two events of one event_id that tie on every ranking key and differ elsewhere
C6_Witness ==
  /\ Done
  /\ Len(events_raw) = 2
  /\ Tied(events_ranked(events_frame(events_raw), ingest_date), events_sort_by)
  /\ Len(events_cleaned.rows) = 1
  /\ events_cleaned.rows[1].event_type
       = Lower(AsStr(events_raw[2].event_type))
  /\ events_raw[1].event_type # events_raw[2].event_type

\* C7: deduplication is idempotent: each cleaner applied to the frame it
\* returned gives back that frame, no record dropped or replaced.
C7_Idempotent ==
  Done =>
    /\ clean_customers(customers_cleaned, ingest_date) = customers_cleaned
    /\ clean_events(events_cleaned, ingest_date) = events_cleaned
    /\ clean_orders(orders_cleaned, ingest_date) = orders_cleaned

C7_Witness ==
  /\ Done
  /\ Len(events_raw) = 2
  /\ Len(events_cleaned.rows) = 1
  /\ Len(orders_cleaned.rows) = 0
  /\ events_cleaned.rows[1].platform = "ios"
  /\ events_cleaned.rows[1].duration_ms = Num(100)

\* the ranking keys of each entity, most significant first
CustomersRanking == <<"has_created_at", "created_at_utc", "email_valid">>
EventsRanking ==
  <<"has_event_time", "has_customer", "has_event_type", "has_platform",
    "has_session", "has_duration", "event_time_utc">>
OrdersRanking ==
  <<"has_order_time", "has_customer", "has_amount", "has_currency", "has_status",
    "order_time_utc">>

\* every kept row is a ranked row that no row of its key outranks
KeptIsMaximal(ranked, cleaned, key, ranking) ==
  \A k \in 1..Len(cleaned.rows) :
     LET s == cleaned.rows[k]
         src == {i \in 1..Len(ranked.rows) :
                   Project(ranked.rows[i], cleaned.cols) = s}
     IN  /\ src # {}
         /\ \A i \in src, j \in 1..Len(ranked.rows) :
              ranked.rows[j][key] = s[key]
                => ~RowLess(ranking, 1, ranked.rows[i], ranked.rows[j])

\* C8: in every group of rows with one business key, the row deduplication
\* keeps has a ranking tuple that is lexicographically maximal in the group.
C8_KeptIsMaximal ==
  Done =>
    /\ KeptIsMaximal(customers_ranked(customers_frame(customers_raw), ingest_date),
                     customers_cleaned, "customer_id", CustomersRanking)
    /\ KeptIsMaximal(events_ranked(events_frame(events_raw), ingest_date),
                     events_cleaned, "event_id", EventsRanking)
    /\ KeptIsMaximal(orders_ranked(orders_frame(orders_raw), ingest_date),
                     orders_cleaned, "order_id", OrdersRanking)

\* the event without a customer comes after the one without a platform and loses
C8_Witness ==
  /\ Done
  /\ Len(events_raw) = 2
  /\ events_raw[1].event_id = events_raw[2].event_id
  /\ events_raw[1].platform = "xbox"
  /\ events_raw[2].customer_id = NA
  /\ Len(events_cleaned.rows) = 1
  /\ events_cleaned.rows[1].customer_id = "c00001"
  /\ events_cleaned.rows[1].platform = NA

\* the codes of a reject_reason: reject_reason.split("|")
RECURSIVE Codes(_)
Codes(s) ==
  IF s = "" THEN {}
  ELSE LET k == IndexIn("|", s, 1)
       IN  IF k = 0 THEN {s}
           ELSE {SubSeq(s, 1, k - 1)} \cup Codes(SubSeq(s, k + 1, Len(s)))

\* the codes the validator gave the input row r: none when r is in CLEAN
CodesOf(r, cols, quarantine) ==
  UNION {Codes(quarantine.rows[j].reject_reason) :
           j \in QuarantinedAs(r, cols, quarantine)}

Present(x) == x # NA /\ Strip(x) # "" /\ Lower(Strip(x)) \notin {"nan", "none", "null"}

Referential(input, quarantine) ==
  \A i \in 1..Len(input.rows) :
     LET r == input.rows[i]
         codes == CodesOf(r, input.cols, quarantine)
     IN  /\ "orphan_customer_id" \in codes
               <=> (/\ Present(r.customer_id)
                    /\ r.customer_id \notin KeysOf(customers_clean, "customer_id"))
         /\ ~Present(r.customer_id) =>
               /\ "missing_customer_id" \in codes
               /\ "orphan_customer_id" \notin codes

\* C9: an event or an order gets orphan_customer_id exactly when its customer_id
\* is present and is no key of the customers CLEAN batch; a record with a missing
\* customer_id gets missing_customer_id and never orphan_customer_id.
C9_OrphanIffPresentAndUnknown ==
  Done =>
    /\ Referential(events_cleaned, events_quarantine)
    /\ Referential(orders_cleaned, orders_quarantine)

\* a known customer, and an order of another one
C9_Witness ==
  /\ Done
  /\ Len(customers_clean.rows) = 1
  /\ Len(orders_quarantine.rows) = 1
  /\ Present(orders_quarantine.rows[1].customer_id)
  /\ "orphan_customer_id" \in Codes(orders_quarantine.rows[1].reject_reason)

AmountPolicy(input, quarantine) ==
  \A i \in 1..Len(input.rows) :
     LET r == input.rows[i]
         codes == CodesOf(r, input.cols, quarantine)
         numeric == r.amount # NaN
     IN  /\ "paid_requires_positive_amount" \in codes
               <=> (r.status = "paid" /\ numeric /\ r.amount[1] <= 0)
         /\ "failed_should_not_have_positive_amount" \in codes
               <=> (r.status = "failed" /\ numeric /\ r.amount[1] > 0)
         /\ "refund_requires_positive_amount" \in codes
               <=> (/\ r.status \in {"refunded", "chargeback"}
                    /\ numeric /\ r.amount[1] <= 0)

\* C10: an order gets paid_requires_positive_amount exactly when it is paid with
\* a numeric amount <= 0, failed_should_not_have_positive_amount exactly when it
\* is failed with a numeric amount > 0, refund_requires_positive_amount exactly
\* when it is refunded or chargeback with a numeric amount <= 0: never with a
\* null or non-numeric amount.
C10_AmountPolicy ==
  Done => AmountPolicy(orders_cleaned, orders_quarantine)

\* an order that was Succeeded in the file, with amount 0
C10_Witness ==
  /\ Done
  /\ Len(orders_raw) = 1
  /\ orders_raw[1].status = "Succeeded"
  /\ Len(orders_quarantine.rows) = 1
  /\ orders_quarantine.rows[1].status = "paid"
  /\ orders_quarantine.rows[1].amount = Num(0)
  /\ "paid_requires_positive_amount"
       \in Codes(orders_quarantine.rows[1].reject_reason)

\* the codes of the rules that hold for a row
RuleCodes(rules) == {rules[k].code : k \in {k \in 1..Len(rules) : rules[k].mask}}

\* the number of codes in a reject_reason
RECURSIVE CodeCount(_)
CodeCount(s) ==
  IF s = NA \/ s = "" THEN 0
  ELSE LET k == IndexIn("|", s, 1)
       IN  IF k = 0 THEN 1 ELSE 1 + CodeCount(SubSeq(s, k + 1, Len(s)))

\* rules[i] is the rules applied to the input row i
CodesByRules(input, quarantine, rules) ==
  \A i \in 1..Len(input.rows) :
     LET r == input.rows[i]
         matched == {k \in 1..Len(rules[i]) : rules[i][k].mask}
     IN  /\ CodesOf(r, input.cols, quarantine) = RuleCodes(rules[i])
         /\ \A j \in QuarantinedAs(r, input.cols, quarantine) :
               CodeCount(quarantine.rows[j].reject_reason) = Cardinality(matched)

PaidInUnknownCurrency(i) ==
  LET o == orders_raw[i]
  IN  /\ normalize_order_status(o.status) = "paid"
      /\ safe_float(o.amount) = Num(100)
      /\ \/ o.currency = NA
         \/ RemoveSpaces(Lower(Strip(o.currency))) \notin DOMAIN CANON_CURRENCY
      /\ o.order_id # NA
      /\ \A k \in 1..Len(orders_raw) : orders_raw[k].order_id = o.order_id => k = i

\* the other fields of the raw order i are valid and its customer is in CLEAN
OtherwiseValid(i) ==
  LET o == orders_raw[i]
  IN  /\ Present(o.order_id)
      /\ parse_timestamp_to_utc(o.order_time) # NaT
      /\ normalize_customer_id(o.customer_id)
            \in KeysOf(customers_clean, "customer_id") \ {NA}

\* C12: a paid order of amount 10.0 whose currency maps to no canonical code is
\* quarantined, never clean, with unknown_currency among its codes; when its
\* other fields are valid and its customer is in the customers CLEAN batch,
\* its reject_reason is unknown_currency alone.
C12_UnknownCurrencyQuarantined ==
  Done =>
    \A i \in 1..Len(orders_raw) :
       PaidInUnknownCurrency(i) =>
         LET id == Strip(orders_raw[i].order_id)
             q == {j \in 1..Len(orders_quarantine.rows) :
                     orders_quarantine.rows[j].order_id = id}
         IN  /\ q # {}
             /\ id \notin KeysOf(orders_clean, "order_id")
             /\ \A j \in q :
                   /\ "unknown_currency"
                        \in Codes(orders_quarantine.rows[j].reject_reason)
                   /\ OtherwiseValid(i) =>
                        orders_quarantine.rows[j].reject_reason = "unknown_currency"

\* the order of the test, of a customer that is in CLEAN
C12_Witness ==
  /\ Done
  /\ Len(orders_raw) = 1
  /\ orders_raw[1].currency = "???"
  /\ PaidInUnknownCurrency(1)
  /\ OtherwiseValid(1)
  /\ Len(orders_clean.rows) = 0
  /\ orders_quarantine.rows[1].reject_reason = "unknown_currency"

StatsAgree(input, clean, quarantine, stats) ==
  /\ {"total", "clean", "quarantine"} \subseteq DOMAIN stats
  /\ stats.total = Len(input.rows)
  /\ stats.clean = Len(clean.rows)
  /\ stats.quarantine = Len(quarantine.rows)
  /\ stats.clean + stats.quarantine = stats.total

\* C13: the stats of every validator have the keys total, clean and quarantine,
\* with total the number of input records, clean and quarantine the sizes of
\* the two batches returned, and clean + quarantine = total.
C13_StatsCounts ==
  Done =>
    /\ StatsAgree(customers_cleaned, customers_clean, customers_quarantine,
                  cust_stats)
    /\ StatsAgree(events_cleaned, events_clean, events_quarantine, ev_stats)
    /\ StatsAgree(orders_cleaned, orders_clean, orders_quarantine, ord_stats)

\* process_day has returned
Returned == pc = "done"

\* the dates process_day has been run for and has returned
Processed == DOMAIN latest

\* C14: when a process_day call has returned, after any sequence of calls, the
\* daily metrics table has exactly one row for each ingest_date processed so
\* far, and it is the row the most recent call for that date computed; a call
\* that reads the same partition as the call before it leaves the table as it
\* was.
C14_DailyUpsertedByDate ==
  Returned =>
    LET rows == daily_metrics_parquet.rows
    IN  /\ {rows[i].ingest_date : i \in 1..Len(rows)} = Processed
        /\ Len(rows) = Cardinality(Processed)
        /\ \A i \in 1..Len(rows) :
              rows[i] = latest[rows[i].ingest_date].daily_row.rows[1]
        /\ (previous # Unset /\ previous.inputs = Inputs) =>
              daily_metrics_parquet = previous.daily_metrics_parquet

\* three calls over two dates, the last one replacing the row of its date
C14_Witness ==
  /\ Returned
  /\ runs = 3
  /\ Len(daily_metrics_parquet.rows) = 2
  /\ previous.inputs.ingest_date = ingest_date
  /\ previous.outputs.daily_row # daily_row
  /\ daily_row.rows[1] \in RowsOf(daily_metrics_parquet)

\* C15: when a process_day call has returned, the hourly table holds for each
\* ingest_date processed so far exactly the hourly rows the most recent call
\* for that date computed, also when that call computed none.
C15_HourlyUpsertedByDate ==
  Returned =>
    \A d \in Processed :
       LET of_day(r) == r.ingest_date = d
       IN  SelectSeq(hourly_events_parquet.rows, of_day) = latest[d].hourly.rows

\* both invocations have returned
BothReturned == Returned /\ peer # Unset /\ peer.pc = "done"

\* C16: when two process_day invocations for different dates have run in
\* parallel, in whatever order their steps were taken, the daily metrics table
\* holds the daily row of each and the hourly table holds the hourly rows of
\* each.
C16_ParallelDatesKeepBothRows ==
  BothReturned =>
    /\ RowsOf(daily_row) \cup RowsOf(peer.daily_row)
         \subseteq RowsOf(daily_metrics_parquet)
    /\ RowsOf(hourly) \cup RowsOf(peer.hourly) \subseteq RowsOf(hourly_events_parquet)

\* the frames and the stats a validator returned
Split(clean, quarantine, stats) ==
  [clean |-> clean, quarantine |-> quarantine, stats |-> stats]

\* C17: in a process_day run the events validator and the orders validator have
\* run only if the customers validator has, and what they returned is their
\* result on the customers CLEAN batch of that run; detect_partial_load is
\* reached only with the day's DailyMetrics row upserted, so that the history
\* it is given has the row of the current ingest_date.
C17_StepsOrdered ==
  /\ (ev_stats # Unset \/ ord_stats # Unset) => customers_clean # Unset
  /\ ev_stats # Unset =>
       Split(events_clean, events_quarantine, ev_stats)
         = split_clean_quarantine_events(events_cleaned, customers_clean,
                                         validate_date)
  /\ ord_stats # Unset =>
       Split(orders_clean, orders_quarantine, ord_stats)
         = split_clean_quarantine_orders(orders_cleaned, customers_clean,
                                         validate_date)
  /\ (pc = "alerts" \/ alerts # Unset) =>
       /\ hist \notin {Unset, Missing}
       /\ daily_row.rows[1] \in RowsOf(hist)
       /\ daily_row.rows[1].ingest_date = ingest_date

\* the second run, of another date, with an event of a customer that is not in
\* that run's CLEAN batch
C17_Witness ==
  /\ Returned
  /\ runs = 2
  /\ Len(hist.rows) = 2
  /\ Len(customers_clean.rows) = 1
  /\ Len(events_quarantine.rows) = 1
  /\ events_quarantine.rows[1].reject_reason = "orphan_customer_id"
  /\ alerts.ingest_date = ingest_date

\* the call that has returned read what the call before it read, with the same
\* history of the other dates
SameRunAgain ==
  /\ Returned
  /\ previous # Unset
  /\ previous.inputs = Inputs
  /\ previous.prior = other_days(hist, ingest_date)

\* C18: a process_day call that reads the same raw batches as the call before
\* it, with the same prior history, produces the same CLEAN and QUARANTINE
\* batches with the same reject reasons, the same validation report, the same
\* hourly counts and daily metrics and the same alerts, whatever happened
\* before and whenever the two calls are made.
C18_RerunIsIdentical ==
  SameRunAgain => Outputs = previous.outputs


\* the flags of a type in the alerts that detect_partial_load returned
FlagsOf(type) ==
  LET of_type(f) == f.type = type IN SelectSeq(alerts.flags, of_type)

HourFlags == FlagsOf("missing_hour_coverage")
VolumeFlags == FlagsOf("volume_drop_vs_trailing_median")

\* the rows of the hourly frame for ingest_date
HourRowsOfDay ==
  IF hourly = Missing THEN {}
  ELSE {i \in 1..Len(hourly.rows) : hourly.rows[i].ingest_date = ingest_date}

ZeroHours == Cardinality({i \in HourRowsOfDay : hourly.rows[i].event_count = 0})
HoursPresent == {hourly.rows[i].hour_utc : i \in HourRowsOfDay} \ {NaT}
HoursShort ==
  IF thresholds.expected_hours > Cardinality(HoursPresent)
  THEN thresholds.expected_hours - Cardinality(HoursPresent) ELSE 0

\* C19: detect_partial_load returns at most one missing_hour_coverage flag.
\* When the hourly frame is empty or has no row for ingest_date the flag is
\* there, of severity high, with missing_hours = expected_hours.  Otherwise the
\* flag is there exactly when the rows of the day with event_count 0, plus the
\* expected hours that no row of the day stands for, are more than
\* missing_hours_threshold, and it is of severity medium with the two counts.
C19_MissingHourCoverage ==
  Returned =>
    /\ Len(HourFlags) <= 1
    /\ HourRowsOfDay = {} =>
         /\ Len(HourFlags) = 1
         /\ HourFlags[1].severity = "high"
         /\ HourFlags[1].details.missing_hours = thresholds.expected_hours
    /\ HourRowsOfDay # {} =>
         /\ Len(HourFlags) = 1 <=>
              ZeroHours + HoursShort > thresholds.missing_hours_threshold
         /\ Len(HourFlags) = 1 =>
              /\ HourFlags[1].severity = "medium"
              /\ HourFlags[1].details.zero_hours = ZeroHours
              /\ HourFlags[1].details.missing_hours = HoursShort

\* two of 24 hours are there, with events, and the threshold is 4
C19_Witness ==
  /\ Returned
  /\ Cardinality(HourRowsOfDay) = 2
  /\ Cardinality(HoursPresent) = 2
  /\ ZeroHours = 0
  /\ thresholds.expected_hours = 24
  /\ thresholds.missing_hours_threshold = 4
  /\ Len(HourFlags) = 1
  /\ HourFlags[1].details.total_bad_hours = 22

\* the rows of the history, when it has the two columns the rule reads
HistoryRowsRead ==
  IF hist = Missing THEN {}
  ELSE IF {"ingest_date", "events_clean"} \subseteq hist.cols THEN RowsOf(hist)
  ELSE {}

\* the rows of today, and the rows of the earlier dates
Today(rows) == {r \in rows : r.ingest_date = ingest_date}
Earlier(rows) == {r \in rows : StrLess(r.ingest_date, ingest_date)}

\* the n latest of the earlier rows
Trailing(earlier, n) ==
  {r \in earlier :
     Cardinality({e \in earlier : StrLess(r.ingest_date, e.ingest_date)}) < n}

\* the events_clean that stands at place j, from 0, when the rows are put in
\* ascending order of events_clean
ValueAt(rows, j) ==
  CHOOSE v \in {r.events_clean : r \in rows} :
    /\ Cardinality({r \in rows : r.events_clean < v}) <= j
    /\ j < Cardinality({r \in rows : r.events_clean <= v})

\* twice the median of the events_clean of the rows
Median2(rows) ==
  LET k == Cardinality(rows)
  IN  ValueAt(rows, (k - 1) \div 2) + ValueAt(rows, k \div 2)

\* the volume of today, the trailing window and its doubled median (0 for an
\* empty window)
Volume ==
  LET rows == HistoryRowsRead
      today == Today(rows)
      window == Trailing(Earlier(rows), thresholds.trailing_days)
  IN  [today |-> today,
       today_events_clean |-> IF today = {} THEN 0
                              ELSE (CHOOSE r \in today : TRUE).events_clean,
       trailing |-> Cardinality(window),
       median2 |-> IF window = {} THEN 0 ELSE Median2(window)]

\* (median - today) / median > volume_drop_pct, with a median above 0
Dropped(v) ==
  /\ v.today # {}
  /\ v.trailing > 0
  /\ v.median2 > 0
  /\ (v.median2 - 2 * v.today_events_clean) * thresholds.volume_drop_pct[2]
       > thresholds.volume_drop_pct[1] * v.median2

\* C20: detect_partial_load returns one volume_drop_vs_trailing_median flag, of
\* severity high, if the history has a row for ingest_date with events_clean,
\* has a row of an earlier date within the trailing window, the median of the
\* window is above 0 and (median - today) / median is strictly above
\* volume_drop_pct; in every other case, no history and no row for today among
\* them, it returns the alerts without a volume flag.
C20_VolumeDrop ==
  Returned =>
    LET v == Volume
        flags == VolumeFlags
    IN  /\ alerts.ingest_date = ingest_date
        /\ Len(flags) = (IF Dropped(v) THEN 1 ELSE 0)
        /\ Dropped(v) =>
             /\ flags[1].severity = "high"
             /\ flags[1].details.today_events_clean = v.today_events_clean
             /\ flags[1].details.trailing_days_used = v.trailing

\* 1000 on 2025-12-09, then 100 on 2025-12-10, with volume_drop_pct = 0.50
C20_Witness ==
  /\ Returned
  /\ ingest_date = "2025-12-10"
  /\ hist \notin {Unset, Missing}
  /\ hist.rows = <<[ingest_date |-> "2025-12-09", events_clean |-> 1000],
                   [ingest_date |-> "2025-12-10", events_clean |-> 100]>>
  /\ thresholds.volume_drop_pct = <<1, 2>>
  /\ Len(VolumeFlags) = 1
  /\ VolumeFlags[1].details.trailing_days_used = 1


\* the day number of an ingest_date
DayOf(date) == parse_timestamp_to_utc(date)[1]

\* the rows of the n calendar days strictly before ingest_date
CalendarWindow(rows, n) ==
  {r \in rows : /\ DayOf(ingest_date) - n <= DayOf(r.ingest_date)
                /\ DayOf(r.ingest_date) < DayOf(ingest_date)}

\* the volume of today against the rows of the trailing calendar days
CalendarVolume ==
  LET rows == HistoryRowsRead
      today == Today(rows)
      window == CalendarWindow(rows, thresholds.trailing_days)
  IN  [today |-> today,
       today_events_clean |-> IF today = {} THEN 0
                              ELSE (CHOOSE r \in today : TRUE).events_clean,
       trailing |-> Cardinality(window),
       median2 |-> IF window = {} THEN 0 ELSE Median2(window)]

\* C21: the volume drop flag that detect_partial_load returns is the one decided
\* on the median of events_clean over the trailing_days calendar days strictly
\* before ingest_date: rows of ingest_date, of later dates, and of dates more
\* than trailing_days calendar days back do not count, also in a history with
\* gaps between its dates.
C21_TrailingCalendarDays ==
  Returned =>
    LET v == CalendarVolume
        flags == VolumeFlags
    IN  /\ Len(flags) = (IF Dropped(v) THEN 1 ELSE 0)
        /\ Dropped(v) =>
             /\ flags[1].details.trailing_days_used = v.trailing
             /\ flags[1].details.trailing_median_events_clean = Frac(v.median2, 2)


\* compute_daily_metrics has returned its frame
DailyComputed == daily_row # Unset

\* the rate is num / den, and 0.0 over a zero den
RateIs(rate, num, den) ==
  IF den > 0 THEN rate[2] > 0 /\ rate[1] * den = num * rate[2]
  ELSE rate = <<0, 1>>

\* C22: compute_daily_metrics returns exactly one row, whatever the six batches
\* are; in it, for customers, events and orders, the clean and quarantine counts
\* are the lengths of the batches, total = clean + quarantine, and the
\* quarantine rate is quarantine / total when total > 0 and 0.0 when total = 0.
C22_TotalsAndQuarantineRates ==
  DailyComputed =>
    /\ Len(daily_row.rows) = 1
    /\ LET r == daily_row.rows[1]
       IN  /\ r.customers_clean = Len(customers_clean.rows)
           /\ r.customers_quarantine = Len(customers_quarantine.rows)
           /\ r.customers_total = r.customers_clean + r.customers_quarantine
           /\ RateIs(r.quarantine_rate_customers, r.customers_quarantine,
                     r.customers_total)
           /\ r.events_clean = Len(events_clean.rows)
           /\ r.events_quarantine = Len(events_quarantine.rows)
           /\ r.events_total = r.events_clean + r.events_quarantine
           /\ RateIs(r.quarantine_rate_events, r.events_quarantine, r.events_total)
           /\ r.orders_clean = Len(orders_clean.rows)
           /\ r.orders_quarantine = Len(orders_quarantine.rows)
           /\ r.orders_total = r.orders_clean + r.orders_quarantine
           /\ RateIs(r.quarantine_rate_orders, r.orders_quarantine, r.orders_total)

\* two clean customers and one quarantined, one order quarantined, no events
C22_Witness ==
  /\ DailyComputed
  /\ pc = "metrics"
  /\ daily_row.rows[1].customers_total = 3
  /\ daily_row.rows[1].quarantine_rate_customers = <<1, 3>>
  /\ daily_row.rows[1].orders_total = 3
  /\ daily_row.rows[1].quarantine_rate_orders = <<1, 3>>
  /\ daily_row.rows[1].events_total = 0
  /\ daily_row.rows[1].quarantine_rate_events = <<0, 1>>

\* the six batches are empty
AllEmpty ==
  /\ Len(customers_clean.rows) = 0 /\ Len(customers_quarantine.rows) = 0
  /\ Len(events_clean.rows) = 0 /\ Len(events_quarantine.rows) = 0
  /\ Len(orders_clean.rows) = 0 /\ Len(orders_quarantine.rows) = 0

CountFields ==
  {"customers_total", "customers_clean", "customers_quarantine", "events_total",
   "events_clean", "events_quarantine", "orders_total", "orders_clean",
   "orders_quarantine", "active_customers_events", "active_customers_orders"}

RateFields ==
  {"quarantine_rate_customers", "quarantine_rate_events", "quarantine_rate_orders",
   "invalid_event_timestamp_rate", "invalid_order_timestamp_rate",
   "orphan_customer_rate_events", "orphan_customer_rate_orders",
   "duplicate_id_rate_events", "duplicate_id_rate_orders",
   "duplicate_fullrow_rate_events", "duplicate_fullrow_rate_orders",
   "null_rate_customers_email", "null_rate_customers_country",
   "null_rate_orders_amount", "null_rate_orders_currency"}

PercentileFields ==
  {"duration_ms_p50", "duration_ms_p95", "amount_p50", "amount_p95"}

BreakdownFields == {"events_by_event_type", "events_by_platform", "orders_by_status"}

\* C23: on six empty batches compute_daily_metrics returns one row, for the
\* ingest_date it was given, in which every count is 0, every rate is 0.0,
\* every percentile is 0.0 and every breakdown is the empty map.
C23_AllEmptyInputs ==
  (DailyComputed /\ AllEmpty) =>
    /\ Len(daily_row.rows) = 1
    /\ LET r == daily_row.rows[1]
       IN  /\ r.ingest_date = ingest_date
           /\ DOMAIN r = {"ingest_date"} \cup CountFields \cup RateFields
                           \cup PercentileFields \cup BreakdownFields
           /\ \A f \in CountFields : r[f] = 0
           /\ \A f \in RateFields \cup PercentileFields : r[f] = <<0, 1>>
           /\ \A f \in BreakdownFields : DOMAIN r[f] = {}

C23_Witness ==
  /\ DailyComputed
  /\ pc = "metrics"
  /\ AllEmpty
  /\ daily_row.rows[1].events_total = 0

\* the customer_id values of the clean customers
CleanCustomerKeys ==
  {customers_clean.rows[i].customer_id : i \in 1..Len(customers_clean.rows)} \ {NA}

\* the rows of a batch whose customer_id is no key of the clean customers
Orphans(df) ==
  {i \in 1..Len(df.rows) : df.rows[i].customer_id \notin CleanCustomerKeys}

\* C24 as the spec has it: the orphan rate of the clean events, and of the clean
\* orders, is the fraction of the rows whose customer_id is absent from the keys
\* of the clean customers, and it is 1.0 whenever the clean customers have no
\* key, for every batch, the empty one too.
C24_OrphanRateOneWithoutCustomers ==
  DailyComputed =>
    LET r == daily_row.rows[1]
    IN  /\ Len(events_clean.rows) > 0 =>
             RateIs(r.orphan_customer_rate_events,
                    Cardinality(Orphans(events_clean)), Len(events_clean.rows))
        /\ Len(orders_clean.rows) > 0 =>
             RateIs(r.orphan_customer_rate_orders,
                    Cardinality(Orphans(orders_clean)), Len(orders_clean.rows))
        /\ CleanCustomerKeys = {} =>
             /\ r.orphan_customer_rate_events = <<1, 1>>
             /\ r.orphan_customer_rate_orders = <<1, 1>>

\* C24, amended: the orphan rate of the clean events, and of the clean orders,
\* is the fraction of the rows whose customer_id is absent from the keys of the
\* clean customers, hence 1.0 when the clean customers have no key and the
\* batch has a row; for a batch without rows it is 0.0, whatever the customers.
C24_OrphanRate ==
  DailyComputed =>
    LET r == daily_row.rows[1]
    IN  /\ RateIs(r.orphan_customer_rate_events,
                  Cardinality(Orphans(events_clean)), Len(events_clean.rows))
        /\ RateIs(r.orphan_customer_rate_orders,
                  Cardinality(Orphans(orders_clean)), Len(orders_clean.rows))
        /\ (CleanCustomerKeys = {} /\ Len(events_clean.rows) > 0) =>
             r.orphan_customer_rate_events = <<1, 1>>
        /\ (CleanCustomerKeys = {} /\ Len(orders_clean.rows) > 0) =>
             r.orphan_customer_rate_orders = <<1, 1>>

\* two clean events, one of a customer that is not among the clean customers
C24_Witness ==
  /\ DailyComputed
  /\ pc = "metrics"
  /\ CleanCustomerKeys # {}
  /\ Len(events_clean.rows) = 2
  /\ Cardinality(Orphans(events_clean)) = 1
  /\ daily_row.rows[1].orphan_customer_rate_events = <<1, 2>>

\* compute_hourly_events has returned its frame
HourlyComputed == hourly # Unset

\* the ingest_date and the start of the hour of an event
HourKey(e) ==
  [ingest_date |-> e.ingest_date,
   hour_utc |-> <<e.event_time_utc[1], 3600 * (e.event_time_utc[2] \div 3600)>>]

RECURSIVE SumCounts(_, _)
SumCounts(rows, n) ==
  IF n = 0 THEN 0 ELSE rows[n].event_count + SumCounts(rows, n - 1)

\* C25: compute_hourly_events returns one row for each (ingest_date, hour) in
\* which a clean event falls and no other row; the event_count of a row is the
\* number of clean events of that ingest_date in that hour, so it is at least
\* 1 and the counts add up to the number of events; for no events the table
\* is empty.
C25_HourlyCounts ==
  HourlyComputed =>
    LET events == events_clean.rows
        rows == hourly.rows
        keys == {HourKey(events[i]) : i \in 1..Len(events)}
    IN  /\ Len(rows) = Cardinality(keys)
        /\ {[ingest_date |-> rows[j].ingest_date, hour_utc |-> rows[j].hour_utc] :
              j \in 1..Len(rows)} = keys
        /\ \A j \in 1..Len(rows) :
              /\ rows[j].event_count >= 1
              /\ rows[j].event_count =
                   Cardinality({i \in 1..Len(events) :
                                  HourKey(events[i]) =
                                    [ingest_date |-> rows[j].ingest_date,
                                     hour_utc |-> rows[j].hour_utc]})
        /\ SumCounts(rows, Len(rows)) = Len(events)
        /\ Len(events) = 0 => rows = <<>>

\* two events at 00:10 and at 00:50 are one row with event_count 2
C25_Witness ==
  /\ HourlyComputed
  /\ pc = "metrics"
  /\ Len(events_clean.rows) = 2
  /\ events_clean.rows[1].event_time_utc # events_clean.rows[2].event_time_utc
  /\ Len(hourly.rows) = 1
  /\ hourly.rows[1].event_count = 2


\* c followed by exactly 5 digits
Canonical(s) ==
  /\ Len(s) = 6
  /\ SubSeq(s, 1, 1) = "c"
  /\ \A i \in 2..6 :
        SubSeq(s, i, i) \in {"0", "1", "2", "3", "4", "5", "6", "7", "8", "9"}

\* the places of s where a c followed by 5 digits starts
EmbeddedAt(s) == {i \in 1..(Len(s) - 5) : Canonical(SubSeq(s, i, i + 5))}

\* C26: normalize_customer_id returns null or c followed by exactly 5 digits.
\* It returns null for a null, for a null-like token and for a string that
\* holds no c followed by 5 digits; the trimmed, lower-cased string when that
\* is c and 5 digits; and otherwise the first c followed by 5 digits that the
\* lower-cased string holds.
C26_CustomerIdCanonicalOrNull ==
  (customers_cleaned # Unset /\ Len(customers_raw) = 1) =>
    LET value == customers_raw[1].customer_id
        out == customers_cleaned.rows[1].customer_id
        s == IF value = NA THEN "" ELSE Lower(Strip(value))
    IN  /\ Len(customers_cleaned.rows) = 1
        /\ out = NA \/ Canonical(out)
        /\ IF value = NA \/ s \in {"", "null", "none", "nan", "n/a", "na"}
           THEN out = NA
           ELSE IF Canonical(s) THEN out = s
           ELSE IF EmbeddedAt(s) = {} THEN out = NA
           ELSE \E i \in EmbeddedAt(s) :
                  /\ \A j \in EmbeddedAt(s) : i <= j
                  /\ out = SubSeq(s, i, i + 5)

\* the id inside "order ref c99999 xyz"
C26_Witness ==
  /\ customers_cleaned # Unset
  /\ Len(customers_raw) = 1
  /\ customers_raw[1].customer_id = "order ref c99999 xyz"
  /\ customers_cleaned.rows[1].customer_id = "c99999"


\* C27: in a process_day run, where the events and orders validators are given
\* the customers validator's CLEAN batch, every CLEAN event and every CLEAN
\* order has a customer_id that is a key of the CLEAN customers, and the two
\* orphan rates of the run's DailyMetrics row are 0.0.
C27_NoOrphanInClean ==
  /\ ev_stats # Unset => KeysOf(events_clean, "customer_id") \subseteq CleanCustomerKeys
  /\ ord_stats # Unset => KeysOf(orders_clean, "customer_id") \subseteq CleanCustomerKeys
  /\ DailyComputed =>
       /\ daily_row.rows[1].orphan_customer_rate_events = <<0, 1>>
       /\ daily_row.rows[1].orphan_customer_rate_orders = <<0, 1>>

\* a run in which an event of an unknown customer was quarantined and other
\* events are CLEAN
C27_Witness ==
  /\ DailyComputed
  /\ pc = "read_daily"
  /\ Len(events_clean.rows) = 2
  /\ Len(events_quarantine.rows) = 1
  /\ events_quarantine.rows[1].reject_reason = "orphan_customer_id"
  /\ daily_row.rows[1].orphan_customer_rate_events = <<0, 1>>

\* the rows of a quarantine whose reject_reason has the code
RowsWithCode(quarantine, code) ==
  {j \in 1..Len(quarantine.rows) : code \in Codes(quarantine.rows[j].reject_reason)}

\* the rows of a cleaned batch whose key is missing for the validator
RowsMissingKey(df, key) ==
  {j \in 1..Len(df.rows) : is_missing_text(df.rows[j][key])}

\* C28: the rows of a batch whose business key is missing collapse to one row
\* in deduplication, so at most one record of each batch reaches the
\* validator's missing_customer_id (customers), missing_event_id or
\* missing_order_id rule.
C28_MissingKeyCollapses ==
  /\ pc \notin {"load"} =>
       Cardinality(RowsMissingKey(customers_cleaned, "customer_id")) <= 1
  /\ pc \notin {"load", "clean_events"} =>
       Cardinality(RowsMissingKey(events_cleaned, "event_id")) <= 1
  /\ pc \notin {"load", "clean_events", "clean_orders"} =>
       Cardinality(RowsMissingKey(orders_cleaned, "order_id")) <= 1
  /\ CustomersValidated =>
       Cardinality(RowsWithCode(customers_quarantine, "missing_customer_id")) <= 1
  /\ EventsValidated =>
       Cardinality(RowsWithCode(events_quarantine, "missing_event_id")) <= 1
  /\ Done =>
       Cardinality(RowsWithCode(orders_quarantine, "missing_order_id")) <= 1

\* the codes process_day's customers validation can never give
UnreachableCustomerCodes ==
  {"invalid_customer_id", "created_at_out_of_range", "missing_ingest_date",
   "ingest_date_mismatch"}

\* C29: in a customers batch cleaned by clean_customers and validated without
\* an expected ingest_date, no reject_reason has invalid_customer_id,
\* created_at_out_of_range, missing_ingest_date or ingest_date_mismatch; a
\* raw id that is not canonical is reported as missing_customer_id and a raw
\* created_at out of range as missing_created_at.
C29_UnreachableCustomerCodes ==
  CustomersValidated =>
    /\ \A j \in 1..Len(customers_quarantine.rows) :
         Codes(customers_quarantine.rows[j].reject_reason)
           \cap UnreachableCustomerCodes = {}
    /\ \A i \in 1..Len(customers_raw) :
         LET r == customers_raw[i]
         IN  /\ r.customer_id \in UnparseableIds =>
                RowsWithCode(customers_quarantine, "missing_customer_id") # {}
             /\ (\A k \in 1..Len(customers_raw) :
                       normalize_customer_id(customers_raw[k].customer_id)
                           = normalize_customer_id(r.customer_id)
                         => customers_raw[k].created_at \in OutOfRangeCreatedAt) =>
                RowsWithCode(customers_quarantine, "missing_created_at") # {}

\* a raw customer with an id that is no id and a created_at of 1850 has been
\* validated and is reported as missing both
C29_Witness ==
  /\ CustomersValidated
  /\ \E i \in 1..Len(customers_raw) :
       /\ customers_raw[i].customer_id = "customer_123"
       /\ customers_raw[i].created_at = "1850-01-01"
  /\ \E j \in 1..Len(customers_quarantine.rows) :
       {"missing_customer_id", "missing_created_at"}
         \subseteq Codes(customers_quarantine.rows[j].reject_reason)

\* the duplicates figures of the three validators' stats
DuplicateStats ==
  {cust_stats.duplicates.full_row_dupes_rows_involved,
   cust_stats.duplicates.customer_id_dupes_rows_involved,
   ev_stats.duplicates.full_row, ev_stats.duplicates.event_id,
   ord_stats.duplicates.full_row, ord_stats.duplicates.order_id}

\* the duplicate rates of a DailyMetrics row
DuplicateRates(row) ==
  {row.duplicate_id_rate_events, row.duplicate_id_rate_orders,
   row.duplicate_fullrow_rate_events, row.duplicate_fullrow_rate_orders}

\* C30: in a process_day run every duplicate figure is 0 whatever the raw
\* files hold: the full-row and business-id rows-involved counts of the three
\* validators' stats are 0, and duplicate_id_rate_* and
\* duplicate_fullrow_rate_* of the DailyMetrics row are 0.0.
C30_DuplicateFiguresZero ==
  /\ cust_stats # Unset =>
       /\ cust_stats.duplicates.full_row_dupes_rows_involved = 0
       /\ cust_stats.duplicates.customer_id_dupes_rows_involved = 0
  /\ ev_stats # Unset =>
       ev_stats.duplicates.full_row = 0 /\ ev_stats.duplicates.event_id = 0
  /\ ord_stats # Unset =>
       ord_stats.duplicates.full_row = 0 /\ ord_stats.duplicates.order_id = 0
  /\ DailyComputed =>
       \A i \in 1..Len(daily_row.rows) :
          DuplicateRates(daily_row.rows[i]) = {<<0, 1>>}

\* a run over files that repeat a whole row and an id has computed its
\* DailyMetrics row, and its figures are 0
C30_Witness ==
  /\ DailyComputed
  /\ pc = "read_daily"
  /\ duplicated_rows(events_raw, EventCols) = 2
  /\ duplicated_rows(events_raw, {"event_id"}) = 3
  /\ duplicated_rows(orders_raw, {"order_id"}) = 2
  /\ duplicated_rows(customers_raw, {"customer_id"}) = 2
  /\ DuplicateStats = {0}
  /\ DuplicateRates(daily_row.rows[1]) = {<<0, 1>>}

=========================================================================
